---- MODULE Spec2Model ----
(***************************************************************************)
(* A model of the honeypot detector (src/src/honeypot.rs), the PERS risk   *)
(* score (src/src/api/handlers.rs), the weighted risk score composer       *)
(* (src/src/core/risk_score.rs, src/src/api/types.rs) and the result       *)
(* cache (src/src/utils/cache.rs).                                         *)
(*                                                                         *)
(* Numbers.  Amounts (U256 wei in the code) are counted in units of        *)
(* WeiPerUnit wei and drawn from small sets, far below u128::MAX, so the   *)
(* u128::try_from(..).unwrap_or(0) fallbacks never apply.  Percentages     *)
(* (f64 in the code) are integers counting 1/PctScale of a percent; the    *)
(* amounts are chosen so that every quotient the code forms is exact.      *)
(***************************************************************************)
EXTENDS Integers, Sequences, FiniteSets

VARIABLES
    \* one run of HoneypotDetector::detect / detect_async
    mode, pc, test_amount_eth, token_code, access_control_penalty,
    risk_factors, tokens_received, eth_received, txlog, sell_outcome, ret,
    \* one risk score computed from a HoneypotResult
    scored, risk_score, score_path,
    \* one RiskScoreBuilder and the RiskScore it builds
    components, factors, built,
    \* the HoneypotCache and the history of its operations
    store, now, hits, misses, get_pc, lastOp, lastPut,
    \* one check_honeypot request after another
    request, rpc_failed, served,
    \* the cache sweeper task spawned by AppState::new
    sweeper,
    \* one RpcProvider::call or execute_batch and the requests it has posted
    rpc_mode, rpc_pc, fallback_url, payload, url, attempt, last_error,
    slept, posts, observed, answered, call_ret,
    \* one RpcProvider::batch_call and the chunks it has posted
    requests, next_chunk, all_results, batch_ret, batch_log,
    \* one RpcProvider, what it has logged and the error strings it made
    api_key, primary_url, log_lines, error_strings,
    \* one check_honeypot request up to the point where it has a detector
    req_chain_id, fetched, route_pc, detected_info, is_v3_only,
    effective_chain_id, check_ret, detector_runs, body_chain_id, route_call,
    \* one batch_analyze request, its semaphore and its tasks
    req_tokens, concurrency, analyze_pc, permits, tasks, awaited, batch_results,
    analyze_ret,
    \* one AnalysisResult and the add_risk calls made on it
    analysis, added, levels,
    \* the RateLimiter, for one key, and the handlers that call check
    limiter_entry, limiter_clock, last_cleanup, checkers, window, limiter_ret,
    \* one run_subscription loop of the WebSocket client
    ws_pc, reconnect_attempts, reconnect_delay, is_connected, rx_dropped, send_failed, ws_attempt, waited, rounds_since_connected, barren_rounds, forwarded, gave_up

detectVars == <<mode, pc, test_amount_eth, token_code, access_control_penalty,
                risk_factors, tokens_received, eth_received, txlog,
                sell_outcome, ret>>
scoreVars == <<scored, risk_score, score_path>>
riskVars == <<components, factors, built>>
cacheVars == <<store, now, hits, misses, get_pc, lastOp, lastPut>>
handlerVars == <<request, rpc_failed, served>>
sweeperVars == <<sweeper>>
rpcVars == <<rpc_mode, rpc_pc, fallback_url, payload, url, attempt, last_error,
             slept, posts, observed, answered, call_ret>>
batchVars == <<requests, next_chunk, all_results, batch_ret, batch_log>>
coreVars == <<detectVars, scoreVars, riskVars, cacheVars, handlerVars,
              sweeperVars, rpcVars>>
keyVars == <<api_key, primary_url, log_lines, error_strings>>
routeVars == <<req_chain_id, fetched, route_pc, detected_info, is_v3_only,
               effective_chain_id, check_ret, detector_runs, body_chain_id,
               route_call>>
analyzeVars == <<req_tokens, concurrency, analyze_pc, permits, tasks, awaited,
                 batch_results, analyze_ret>>
analysisVars == <<analysis, added, levels>>
limiterVars == <<limiter_entry, limiter_clock, last_cleanup, checkers, window, limiter_ret>>
wsVars == <<ws_pc, reconnect_attempts, reconnect_delay, is_connected, rx_dropped, send_failed, ws_attempt, waited, rounds_since_connected, barren_rounds, forwarded, gave_up>>
extVars == <<batchVars, keyVars, routeVars, analyzeVars,
    analysisVars,
    limiterVars,
    wsVars>>
notBatchVars == <<coreVars, keyVars, routeVars, analyzeVars,
    analysisVars,
    limiterVars,
    wsVars>>
notKeyVars == <<coreVars, batchVars, routeVars, analyzeVars,
    analysisVars,
    limiterVars,
    wsVars>>
notRouteVars == <<coreVars, batchVars, keyVars, analyzeVars,
    analysisVars,
    limiterVars,
    wsVars>>
notAnalyzeVars == <<coreVars, batchVars, keyVars, routeVars,
    analysisVars,
    limiterVars,
    wsVars>>
notAnalysisVars == <<coreVars, batchVars, keyVars, routeVars, analyzeVars,
    limiterVars,
    wsVars>>
notLimiterVars == <<coreVars, batchVars, keyVars, routeVars, analyzeVars, analysisVars,
    wsVars>>
notWsVars == <<coreVars, batchVars, keyVars, routeVars, analyzeVars, analysisVars, limiterVars>>
vars == <<coreVars, extVars>>

None == "none"

Min(a, b) == IF a < b THEN a ELSE b
Max(a, b) == IF a > b THEN a ELSE b

(***************************************************************************)
(* Units and program constants                                             *)
(***************************************************************************)
\* one model unit of amount is 10^9 wei
WeiPerUnit == 1000000000
\* a percentage p is stored as p * PctScale
PctScale == 100

\* tokens / eth below 1000 wei are taken for the mock router's output
MOCK_THRESHOLD_WEI == 1000
\* simulate_buy's fallback: 10^18 wei, "1 token"
ONE_TOKEN_UNITS == 1000000000
BUY_NONCE == 0
APPROVE_NONCE == 1
SELL_NONCE == 2
\* "assume ~95% return"
MOCK_RETURN_PERCENT == 95
SIM_EXTREME_LOSS_PERCENT == 50
QUOTE_EXTREME_LOSS_PERCENT == 90
AC_PENALTY == 50

\* x (in units) is below the mock threshold: x * WeiPerUnit < 1000
BelowMockThreshold(x) ==
    x < (MOCK_THRESHOLD_WEI + WeiPerUnit - 1) \div WeiPerUnit

(***************************************************************************)
(* Inputs the runs draw from                                               *)
(***************************************************************************)
\* test amounts, in units; 0 is the documented dead end
TestAmounts == {0, 1000, 2000}
\* last 32-byte word of a router's return data, in units
ReturnedAmounts == {0, 400, 900, 1000, 1900, 2000, 3000}

\* the substrings of the hex encoding the scanner looks for
DangerousSelectors ==
    << [selector |-> "974d396d", name |-> "setBots",
         factor |-> "Access Control: setBots detected"],
       [selector |-> "3d18678e", name |-> "setBot",
         factor |-> "Access Control: setBot detected"],
       [selector |-> "e4997dc5", name |-> "blacklistAddress",
         factor |-> "Access Control: blacklistAddress detected"],
       [selector |-> "44337ea1", name |-> "addToBlacklist",
         factor |-> "Access Control: addToBlacklist detected"],
       [selector |-> "b515566a", name |-> "isBot",
         factor |-> "Access Control: isBot detected"],
       [selector |-> "0ecb93c0", name |-> "setBlacklist",
         factor |-> "Access Control: setBlacklist detected"],
       [selector |-> "09218e91", name |-> "addBot",
         factor |-> "Access Control: addBot detected"],
       [selector |-> "363bf964", name |-> "delBot",
         factor |-> "Access Control: delBot detected"],
       [selector |-> "8a8c523c", name |-> "setTradingEnabled",
         factor |-> "Access Control: setTradingEnabled detected"],
       [selector |-> "8da5cb5b", name |-> "enableTrading",
         factor |-> "Access Control: enableTrading detected"],
       [selector |-> "ec28438a", name |-> "setMaxTxAmount",
         factor |-> "Access Control: setMaxTxAmount detected"],
       [selector |-> "f1d5f517", name |-> "setMaxWalletSize",
         factor |-> "Access Control: setMaxWalletSize detected"] >>
StoragePatterns == {"626f7473", "626c61636b6c697374"}

\* A bytecode is modelled by the set of searched-for substrings its hex
\* encoding contains.
Bytecodes ==
    { {} }
    \cup { {DangerousSelectors[i].selector} : i \in 1..Len(DangerousSelectors) }
    \cup { {p} : p \in StoragePatterns }
    \cup { {"974d396d", "b515566a", "626c61636b6c697374"},
           {"8da5cb5b", "626f7473"}, {"3d18678e", "f1d5f517"} }

\* mock_erc20_bytecode: 60 01 60 00 52 60 20 60 00 f3 contains none of them
mock_erc20_bytecode == {}

(***************************************************************************)
(* HoneypotResult and its constructors                                     *)
(* latency_ms is a wall-clock measurement and is left out.                 *)
(***************************************************************************)
safe(buy_tax, sell_tax, access_penalty, factors_) ==
    [ is_honeypot |-> FALSE,
      reason |-> "Token passed buy/sell simulation",
      buy_success |-> TRUE,
      sell_success |-> TRUE,
      sell_reverted |-> FALSE,
      buy_tax_percent |-> buy_tax,
      sell_tax_percent |-> sell_tax,
      total_loss_percent |-> buy_tax + sell_tax,
      access_control_penalty |-> access_penalty,
      risk_factors |-> factors_ ]

\* honeypot() with the verdict flag copied from safe()
honeypot_not_flagged(reason, buy_success, sell_success, sell_reverted, access_penalty, factors_) ==
    [ is_honeypot |-> FALSE,
      reason |-> reason,
      buy_success |-> buy_success,
      sell_success |-> sell_success,
      sell_reverted |-> sell_reverted,
      buy_tax_percent |-> IF buy_success THEN 0 ELSE 100 * PctScale,
      sell_tax_percent |-> 100 * PctScale,
      total_loss_percent |-> 100 * PctScale,
      access_control_penalty |-> access_penalty,
      risk_factors |-> factors_ ]

honeypot(reason, buy_success, sell_success, sell_reverted, access_penalty, factors_) ==
    [ is_honeypot |-> TRUE,
      reason |-> reason,
      buy_success |-> buy_success,
      sell_success |-> sell_success,
      sell_reverted |-> sell_reverted,
      buy_tax_percent |-> IF buy_success THEN 0 ELSE 100 * PctScale,
      sell_tax_percent |-> 100 * PctScale,
      total_loss_percent |-> 100 * PctScale,
      access_control_penalty |-> access_penalty,
      risk_factors |-> factors_ ]

\* a no-liquidity result that reports the buy as done
no_liquidity_result_bought(access_penalty) ==
    [ is_honeypot |-> FALSE,
      reason |-> "No liquidity pool found",
      buy_success |-> TRUE,
      sell_success |-> FALSE,
      sell_reverted |-> FALSE,
      buy_tax_percent |-> 0,
      sell_tax_percent |-> 0,
      total_loss_percent |-> 0,
      access_control_penalty |-> access_penalty,
      risk_factors |-> <<"No liquidity on checked DEX">> ]

\* the struct literals of detect_async (quote mode)
no_liquidity_result(access_penalty) ==
    [ is_honeypot |-> FALSE,
      reason |-> "No liquidity pool found",
      buy_success |-> FALSE,
      sell_success |-> FALSE,
      sell_reverted |-> FALSE,
      buy_tax_percent |-> 0,
      sell_tax_percent |-> 0,
      total_loss_percent |-> 0,
      access_control_penalty |-> access_penalty,
      risk_factors |-> <<"No liquidity on checked DEX">> ]

insufficient_liquidity_result(access_penalty) ==
    [ is_honeypot |-> FALSE,
      reason |-> "Insufficient liquidity for sell",
      buy_success |-> TRUE,
      sell_success |-> FALSE,
      sell_reverted |-> FALSE,
      buy_tax_percent |-> 0,
      sell_tax_percent |-> 0,
      total_loss_percent |-> 0,
      access_control_penalty |-> access_penalty,
      risk_factors |-> <<"Low liquidity">> ]

no_pair_result(access_penalty) ==
    [ is_honeypot |-> FALSE,
      reason |-> "No trading pair found",
      buy_success |-> FALSE,
      sell_success |-> FALSE,
      sell_reverted |-> FALSE,
      buy_tax_percent |-> 0,
      sell_tax_percent |-> 0,
      total_loss_percent |-> 0,
      access_control_penalty |-> access_penalty,
      risk_factors |-> <<"No pair on DEX">> ]

Ok(v) == [ok |-> TRUE, value |-> v]
Err(e) == [ok |-> FALSE, error |-> e]

(***************************************************************************)
(* scan_access_control_functions                                           *)
(***************************************************************************)
RECURSIVE ScanSelectors(_, _, _)
\* the for loop over dangerous_selectors, from index i on:
\* acc = [penalty, risk_factors]
ScanSelectors(code, i, acc) ==
    IF i > Len(DangerousSelectors) THEN acc
    ELSE IF DangerousSelectors[i].selector \in code
         THEN ScanSelectors(code, i + 1,
                  [ penalty |-> AC_PENALTY,
                    risk_factors |->
                        Append(acc.risk_factors,
                               DangerousSelectors[i].factor) ])
         ELSE ScanSelectors(code, i + 1, acc)

\* a scan in which a storage pattern adds its own penalty
scan_access_control_functions_adding(code, factors_) ==
    LET loop == ScanSelectors(code, 1,
                    [penalty |-> 0, risk_factors |-> factors_])
    IN  IF (code \cap StoragePatterns) # {}
        THEN [ penalty |-> loop.penalty + AC_PENALTY,
               risk_factors |->
                   Append(loop.risk_factors,
                          "Blacklist storage pattern detected") ]
        ELSE loop

scan_access_control_functions(code, factors_) ==
    LET loop == ScanSelectors(code, 1,
                    [penalty |-> 0, risk_factors |-> factors_])
    IN  IF (code \cap StoragePatterns) # {} /\ loop.penalty = 0
        THEN [ penalty |-> AC_PENALTY,
               risk_factors |->
                   Append(loop.risk_factors,
                          "Blacklist storage pattern detected") ]
        ELSE loop

(***************************************************************************)
(* The in-memory EVM (revm), seen from the detector: the outcome of one    *)
(* transact_commit.  len is the length of the call's return data in bytes, *)
(* last its final 32-byte word (in units).  Output::Create does not occur  *)
(* for a TxKind::Call transaction.                                         *)
(***************************************************************************)
ExecutionResults ==
    { [kind |-> "Success", len |-> 0, last |-> 0],
      [kind |-> "Success", len |-> 32, last |-> 1000] }
    \cup { [kind |-> "Success", len |-> 64, last |-> v] : v \in ReturnedAmounts }
    \cup { [kind |-> k, len |-> 0, last |-> 0] : k \in {"Revert", "Halt", "EvmError"} }

execute_tx(outcome) ==
    CASE outcome.kind = "Success" -> Ok([len |-> outcome.len, last |-> outcome.last])
      [] outcome.kind = "Revert" -> Err("Reverted")
      [] outcome.kind = "Halt" -> Err("Halted")
      [] OTHER -> Err("EVM error")

simulate_buy(outcome) ==
    LET result == execute_tx(outcome)
    IN  IF ~result.ok THEN result
        ELSE IF result.value.len >= 64
             THEN Ok(result.value.last)
             ELSE Ok(ONE_TOKEN_UNITS)

simulate_approve(outcome) ==
    LET result == execute_tx(outcome)
    IN  IF ~result.ok THEN result ELSE Ok("unit")

\* a Halt taken for a call that returned nothing
sell_halt_as_empty_success(outcome) ==
    CASE outcome.kind = "Success" ->
             IF outcome.len >= 64
             THEN Ok([tag |-> "Success", eth |-> outcome.last])
             ELSE Ok([tag |-> "Success", eth |-> 0])
      [] outcome.kind = "Revert" -> Ok([tag |-> "Reverted", eth |-> 0])
      [] outcome.kind = "Halt" -> Ok([tag |-> "Success", eth |-> 0])
      [] OTHER -> Err("EVM error")

\* SimSellResult: Success(eth) or Reverted(reason); the reason text is not
\* modelled
simulate_sell_with_revert_detection(outcome) ==
    CASE outcome.kind = "Success" ->
             IF outcome.len >= 64
             THEN Ok([tag |-> "Success", eth |-> outcome.last])
             ELSE Ok([tag |-> "Success", eth |-> 0])
      [] outcome.kind = "Revert" -> Ok([tag |-> "Reverted", eth |-> 0])
      [] outcome.kind = "Halt" -> Ok([tag |-> "Reverted", eth |-> 0])
      [] OTHER -> Err("EVM error")

\* ((in - out) / in) * 100, for in # 0
loss_percent(amount_in, amount_out) ==
    ((amount_in - amount_out) * 100 * PctScale) \div amount_in

(***************************************************************************)
(* HoneypotDetector::detect, full simulation                               *)
(***************************************************************************)
\* tokens the detector goes on with after a successful buy
effective_tokens(tokens, test_amount) ==
    IF BelowMockThreshold(tokens) THEN test_amount ELSE tokens

\* eth the detector takes as received after a successful sell
effective_eth(eth, test_amount) ==
    IF BelowMockThreshold(eth)
    THEN (test_amount * MOCK_RETURN_PERCENT) \div 100
    ELSE eth

\* the approve result ignored
approve_failure_ignored(approve_result) == "sell"

\* where detect goes after simulate_approve returned
detect_after_approve(approve_result) ==
    IF approve_result.ok THEN "sell" ELSE "done"

\* STEP 5 with a loss of 50 % taken for extreme
detect_calculate_taxes_from_fifty(test_amount, received, penalty, factors_) ==
    IF test_amount = 0
    THEN honeypot("Invalid test amount", TRUE, TRUE, FALSE, penalty, factors_)
    ELSE LET total_loss_percent == loss_percent(test_amount, received)
         IN  IF total_loss_percent >= SIM_EXTREME_LOSS_PERCENT * PctScale
             THEN honeypot("Extreme loss", TRUE, TRUE, FALSE, penalty,
                           Append(factors_, "Extreme loss"))
             ELSE safe(total_loss_percent \div 2, total_loss_percent \div 2,
                       penalty, factors_)

\* STEP 5 of detect: the result after a successful sell
detect_calculate_taxes(test_amount, received, penalty, factors_) ==
    IF test_amount = 0
    THEN honeypot("Invalid test amount", TRUE, TRUE, FALSE, penalty, factors_)
    ELSE LET total_loss_percent == loss_percent(test_amount, received)
         IN  IF total_loss_percent > SIM_EXTREME_LOSS_PERCENT * PctScale
             THEN honeypot("Extreme loss", TRUE, TRUE, FALSE, penalty,
                           Append(factors_, "Extreme loss"))
             ELSE safe(total_loss_percent \div 2, total_loss_percent \div 2,
                       penalty, factors_)

DetectStart ==
    /\ mode = "sim" /\ pc = "start"
    /\ LET token_code_ == IF token_code.some THEN token_code.code
                          ELSE mock_erc20_bytecode
           scan == scan_access_control_functions(token_code_, <<>>)
       IN  /\ access_control_penalty' = scan.penalty
           /\ risk_factors' = scan.risk_factors
    /\ pc' = "buy"
    /\ UNCHANGED <<mode, test_amount_eth, token_code, tokens_received,
                   eth_received, txlog, sell_outcome, ret>>
    /\ UNCHANGED <<scoreVars, riskVars, cacheVars, handlerVars, sweeperVars, rpcVars, extVars>>

DetectBuy ==
    /\ mode = "sim" /\ pc = "buy"
    /\ \E outcome \in ExecutionResults :
         LET buy_result == simulate_buy(outcome)
         IN  /\ txlog' = Append(txlog, [step |-> "Buy", nonce |-> BUY_NONCE,
                                        kind |-> outcome.kind])
             /\ IF buy_result.ok
                THEN /\ tokens_received' =
                            effective_tokens(buy_result.value, test_amount_eth)
                     /\ pc' = "approve"
                     /\ UNCHANGED ret
                ELSE /\ ret' = Ok(honeypot("Buy failed", FALSE, FALSE, FALSE,
                                           access_control_penalty, risk_factors))
                     /\ pc' = "done"
                     /\ UNCHANGED tokens_received
    /\ UNCHANGED <<mode, test_amount_eth, token_code, access_control_penalty,
                   risk_factors, eth_received, sell_outcome>>
    /\ UNCHANGED <<scoreVars, riskVars, cacheVars, handlerVars, sweeperVars, rpcVars, extVars>>

DetectApprove ==
    /\ mode = "sim" /\ pc = "approve"
    /\ \E outcome \in ExecutionResults :
         LET approve_result == simulate_approve(outcome)
         IN  /\ txlog' = Append(txlog, [step |-> "Approve",
                                        nonce |-> APPROVE_NONCE,
                                        kind |-> outcome.kind])
             /\ pc' = detect_after_approve(approve_result)
             /\ IF approve_result.ok
                THEN UNCHANGED ret
                ELSE ret' = Ok(honeypot("Approve failed", TRUE, FALSE, FALSE,
                                        access_control_penalty, risk_factors))
    /\ UNCHANGED <<mode, test_amount_eth, token_code, access_control_penalty,
                   risk_factors, tokens_received, eth_received, sell_outcome>>
    /\ UNCHANGED <<scoreVars, riskVars, cacheVars, handlerVars, sweeperVars, rpcVars, extVars>>

\* STEP 4 and STEP 5: nothing is executed between the sell and the return
DetectSell ==
    /\ mode = "sim" /\ pc = "sell"
    /\ \E outcome \in ExecutionResults :
         LET sell_result == simulate_sell_with_revert_detection(outcome)
         IN  /\ txlog' = Append(txlog, [step |-> "Sell", nonce |-> SELL_NONCE,
                                        kind |-> outcome.kind])
             /\ sell_outcome' = outcome.kind
             /\ IF sell_result.ok /\ sell_result.value.tag = "Success"
                THEN LET eth == effective_eth(sell_result.value.eth,
                                              test_amount_eth)
                     IN  /\ eth_received' = eth
                         /\ risk_factors' = risk_factors
                         /\ ret' = Ok(detect_calculate_taxes(
                                          test_amount_eth, eth,
                                          access_control_penalty, risk_factors))
                ELSE IF sell_result.ok
                THEN /\ risk_factors' = Append(risk_factors, "SELL REVERTED")
                     /\ ret' = Ok(honeypot("SELL REVERTED", TRUE, FALSE, TRUE,
                                           access_control_penalty,
                                           risk_factors'))
                     /\ UNCHANGED eth_received
                ELSE /\ ret' = Ok(honeypot("Sell failed", TRUE, FALSE, TRUE,
                                           access_control_penalty, risk_factors))
                     /\ UNCHANGED <<eth_received, risk_factors>>
    /\ pc' = "done"
    /\ UNCHANGED <<mode, test_amount_eth, token_code, access_control_penalty,
                   tokens_received>>
    /\ UNCHANGED <<scoreVars, riskVars, cacheVars, handlerVars, sweeperVars, rpcVars, extVars>>

(***************************************************************************)
(* HoneypotDetector::detect_async, quote mode                              *)
(***************************************************************************)
\* error texts a node answers an eth_call with
NodeErrorTexts ==
    { "execution reverted",
      "UniswapV2Library: INSUFFICIENT_LIQUIDITY",
      "TransferHelper: TRANSFER_FROM_FAILED" }

\* What the RPC endpoint answers one eth_call with.  words is the number of
\* 32-byte words of the hex result, last the final word (in units).
RpcResponses ==
    { [kind |-> k, text |-> "", words |-> 0, last |-> 0] :
          k \in {"transport", "unparseable", "no_result", "bad_hex"} }
    \cup { [kind |-> "error", text |-> t, words |-> 0, last |-> 0] :
               t \in NodeErrorTexts }
    \cup { [kind |-> "result", text |-> "", words |-> w, last |-> 0] :
               w \in {0, 2} }
    \cup { [kind |-> "result", text |-> "", words |-> 3, last |-> v] :
               v \in ReturnedAmounts }

eth_call(resp) ==
    CASE resp.kind = "transport" ->
             Err([msg |-> "RPC request failed", detail |-> ""])
      [] resp.kind = "unparseable" ->
             Err([msg |-> "Failed to parse response", detail |-> ""])
      [] resp.kind = "error" ->
             Err([msg |-> "RPC error", detail |-> resp.text])
      [] resp.kind = "no_result" ->
             Err([msg |-> "No result in response", detail |-> ""])
      [] resp.kind = "result" /\ 2 + 64 * resp.words < 66 ->
             Err([msg |-> "Empty or invalid response", detail |-> ""])
      [] resp.kind = "bad_hex" ->
             Err([msg |-> "Failed to decode hex", detail |-> ""])
      [] resp.kind = "result" /\ 32 * resp.words >= 96 -> Ok(resp.last)
      [] OTHER -> Err([msg |-> "Response too short", detail |-> ""])

\* the call got no answer it could read: client.post(..).send() failed
\* (connection error, timeout) or the body was not JSON
rpc_call_failed(resp) == resp.kind \in {"transport", "unparseable"}

\* e.to_string().to_lowercase() contains "insufficient" or "empty": of the
\* texts above, these do
mentions_insufficient_or_empty(e) ==
    \/ e.msg = "Empty or invalid response"
    \/ e.detail = "UniswapV2Library: INSUFFICIENT_LIQUIDITY"

\* the Ok(eth_back) arm of detect_async
detect_async_sell_quoted(test_amount, eth_back, penalty, factors_) ==
    IF test_amount = 0
    THEN honeypot("Invalid test amount", TRUE, FALSE, FALSE, penalty, factors_)
    ELSE LET total_loss == Max(loss_percent(test_amount, eth_back), 0)
         IN  IF total_loss > QUOTE_EXTREME_LOSS_PERCENT * PctScale
             THEN honeypot("Extreme loss", TRUE, FALSE, FALSE, penalty,
                           Append(factors_, "Extreme loss"))
             ELSE safe(total_loss \div 2, total_loss \div 2, penalty, factors_)

\* the Err(e) arm of the sell quote
detect_async_sell_failed(e, penalty, factors_) ==
    IF mentions_insufficient_or_empty(e)
    THEN insufficient_liquidity_result(penalty)
    ELSE honeypot("Sell returned 0", TRUE, FALSE, TRUE, penalty, factors_)

\* fetch_bytecode and the scan; token_code.some is FALSE when the fetch
\* returned None
QuoteFetch ==
    /\ mode = "quote" /\ pc = "start"
    /\ LET scan == IF token_code.some
                   THEN scan_access_control_functions(token_code.code, <<>>)
                   ELSE [penalty |-> 0, risk_factors |-> <<>>]
       IN  /\ access_control_penalty' = scan.penalty
           /\ risk_factors' = scan.risk_factors
    /\ pc' = "quote_buy"
    /\ UNCHANGED <<mode, test_amount_eth, token_code, tokens_received,
                   eth_received, txlog, sell_outcome, ret>>
    /\ UNCHANGED <<scoreVars, riskVars, cacheVars, handlerVars, sweeperVars, rpcVars, extVars>>

\* get_amounts_out
QuoteBuy ==
    /\ mode = "quote" /\ pc = "quote_buy"
    /\ \E resp \in RpcResponses :
         /\ rpc_failed' = (rpc_failed \/ rpc_call_failed(resp))
         /\ LET quote_result == eth_call(resp)
            IN  /\ txlog' = Append(txlog,
                       [step |-> "getAmountsOut", nonce |-> 0,
                        kind |-> IF quote_result.ok THEN "Ok" ELSE "Err",
                        value |-> IF quote_result.ok
                                  THEN quote_result.value ELSE 0])
                /\ IF quote_result.ok /\ quote_result.value # 0
                   THEN /\ tokens_received' = quote_result.value
                        /\ pc' = "quote_sell"
                        /\ UNCHANGED ret
                   ELSE /\ ret' = IF quote_result.ok
                                  THEN Ok(no_liquidity_result(access_control_penalty))
                                  ELSE Ok(no_pair_result(access_control_penalty))
                        /\ pc' = "done"
                        /\ UNCHANGED tokens_received
    /\ UNCHANGED <<mode, test_amount_eth, token_code, access_control_penalty,
                   risk_factors, eth_received, sell_outcome>>
    /\ UNCHANGED <<scoreVars, riskVars, cacheVars, request, served, sweeperVars, rpcVars, extVars>>

\* get_amounts_out_reverse
QuoteSell ==
    /\ mode = "quote" /\ pc = "quote_sell"
    /\ \E resp \in RpcResponses :
         /\ rpc_failed' = (rpc_failed \/ rpc_call_failed(resp))
         /\ LET sell_quote == eth_call(resp)
            IN  /\ txlog' = Append(txlog,
                       [step |-> "getAmountsOutReverse", nonce |-> 0,
                        kind |-> IF sell_quote.ok THEN "Ok" ELSE "Err",
                        value |-> IF sell_quote.ok
                                  THEN sell_quote.value ELSE 0])
                /\ IF sell_quote.ok
                   THEN /\ eth_received' = sell_quote.value
                        /\ sell_outcome' = "quoted"
                        /\ ret' = Ok(detect_async_sell_quoted(
                                         test_amount_eth, sell_quote.value,
                                         access_control_penalty, risk_factors))
                   ELSE /\ sell_outcome' = "quote_failed"
                        /\ ret' = Ok(detect_async_sell_failed(
                                         sell_quote.error,
                                         access_control_penalty, risk_factors))
                        /\ UNCHANGED eth_received
    /\ pc' = "done"
    /\ UNCHANGED <<mode, test_amount_eth, token_code, access_control_penalty,
                   risk_factors, tokens_received>>
    /\ UNCHANGED <<scoreVars, riskVars, cacheVars, request, served, sweeperVars, rpcVars, extVars>>

(***************************************************************************)
(* Values a part of the state holds while a specification does not use it  *)
(***************************************************************************)
NoResult == Err("pending")

DetectIdle ==
    /\ mode = None /\ pc = None /\ test_amount_eth = 0
    /\ token_code = [some |-> FALSE, code |-> {}]
    /\ access_control_penalty = 0 /\ risk_factors = <<>>
    /\ tokens_received = 0 /\ eth_received = 0 /\ txlog = <<>>
    /\ sell_outcome = None /\ ret = NoResult

(***************************************************************************)
(* One detection                                                           *)
(***************************************************************************)
DetectInit ==
    /\ mode \in {"sim", "quote"}
    /\ pc = "start"
    /\ test_amount_eth \in TestAmounts
    /\ token_code \in { [some |-> FALSE, code |-> {}] }
                      \cup { [some |-> TRUE, code |-> c] : c \in Bytecodes }
    /\ access_control_penalty = 0 /\ risk_factors = <<>>
    /\ tokens_received = 0 /\ eth_received = 0 /\ txlog = <<>>
    /\ sell_outcome = None /\ ret = NoResult

DetectNext ==
    \/ DetectStart \/ DetectBuy \/ DetectApprove \/ DetectSell
    \/ QuoteFetch \/ QuoteBuy \/ QuoteSell

(***************************************************************************)
(* PERS score of a HoneypotResult                                          *)
(***************************************************************************)
\* the unverified-token shortcut taken on failed buy and sell alone
calculate_risk_score_shortcut_first(result) ==
    IF ~result.buy_success /\ ~result.sell_success
    THEN 70
    ELSE LET base_score ==
                 IF result.sell_reverted THEN 100
                 ELSE IF result.is_honeypot THEN 95
                 ELSE IF result.total_loss_percent > 50 * PctScale THEN 80
                 ELSE IF result.total_loss_percent > 30 * PctScale THEN 60
                 ELSE IF result.total_loss_percent > 10 * PctScale THEN 40
                 ELSE IF result.total_loss_percent > 5 * PctScale THEN 20
                 ELSE 10
             penalty ==
                 IF result.total_loss_percent > 5 * PctScale
                 THEN result.access_control_penalty
                 ELSE 0
         IN  Min(base_score + penalty, 100)

\* the sum returned without the cap
calculate_risk_score_uncapped(result) ==
    IF /\ ~result.buy_success /\ ~result.sell_success
       /\ ~result.is_honeypot /\ ~result.sell_reverted
    THEN 70
    ELSE LET base_score ==
                 IF result.sell_reverted THEN 100
                 ELSE IF result.is_honeypot THEN 95
                 ELSE IF result.total_loss_percent > 50 * PctScale THEN 80
                 ELSE IF result.total_loss_percent > 30 * PctScale THEN 60
                 ELSE IF result.total_loss_percent > 10 * PctScale THEN 40
                 ELSE IF result.total_loss_percent > 5 * PctScale THEN 20
                 ELSE 10
             penalty ==
                 IF result.total_loss_percent > 5 * PctScale
                 THEN result.access_control_penalty
                 ELSE 0
         IN  base_score + penalty

\* handlers.rs calculate_risk_score; the sum is formed in u32 and is at
\* most 100 + 255, so the cast to u8 after min(100) loses nothing
calculate_risk_score(result) ==
    IF /\ ~result.buy_success /\ ~result.sell_success
       /\ ~result.is_honeypot /\ ~result.sell_reverted
    THEN 70
    ELSE LET base_score ==
                 IF result.sell_reverted THEN 100
                 ELSE IF result.is_honeypot THEN 95
                 ELSE IF result.total_loss_percent > 50 * PctScale THEN 80
                 ELSE IF result.total_loss_percent > 30 * PctScale THEN 60
                 ELSE IF result.total_loss_percent > 10 * PctScale THEN 40
                 ELSE IF result.total_loss_percent > 5 * PctScale THEN 20
                 ELSE 10
             penalty ==
                 IF result.total_loss_percent > 5 * PctScale
                 THEN result.access_control_penalty
                 ELSE 0
         IN  Min(base_score + penalty, 100)

\* the score batch_analyze computes inline for each token
batch_risk_score(result) ==
    LET base_score ==
            IF result.sell_reverted THEN 100
            ELSE IF result.is_honeypot THEN 95
            ELSE IF result.total_loss_percent > 30 * PctScale THEN 70
            ELSE IF result.total_loss_percent > 10 * PctScale THEN 40
            ELSE 10
    IN  Min(base_score + result.access_control_penalty, 100)

\* score -> level, as batch_analyze and RiskScoreResponse map it
score_level(score) ==
    IF score <= 20 THEN "SAFE"
    ELSE IF score <= 40 THEN "LOW"
    ELSE IF score <= 60 THEN "MEDIUM"
    ELSE IF score <= 80 THEN "HIGH"
    ELSE "CRITICAL"

\* arguments safe() is called with, as percentages times PctScale
TaxInputs == {-100, 0, 100, 250, 251, 500, 501, 1500, 1501, 2500, 2501}
\* values scan_access_control_functions returns
Penalties == {0, AC_PENALTY}

\* Every HoneypotResult the constructors and struct literals of honeypot.rs
\* build
ScoreInputs ==
    { safe(b, s_, p_, <<>>) : b \in TaxInputs, s_ \in TaxInputs, p_ \in Penalties }
    \cup { honeypot("Cannot sell", b[1], b[2], b[3], p_, <<>>) :
               b \in BOOLEAN \X BOOLEAN \X BOOLEAN, p_ \in Penalties }
    \cup { no_liquidity_result(p_) : p_ \in Penalties }
    \cup { insufficient_liquidity_result(p_) : p_ \in Penalties }
    \cup { no_pair_result(p_) : p_ \in Penalties }

ScoreInit ==
    /\ scored \in ScoreInputs
    /\ risk_score = 0
    /\ score_path = None

\* check_honeypot: calculate_risk_score(&hp_result)
ScoreCheckHoneypot ==
    /\ score_path = None
    /\ risk_score' = calculate_risk_score(scored)
    /\ score_path' = "check_honeypot"
    /\ UNCHANGED scored
    /\ UNCHANGED <<detectVars, riskVars, cacheVars, handlerVars, sweeperVars, rpcVars, extVars>>

\* batch_analyze: the inline ladder
ScoreBatchAnalyze ==
    /\ score_path = None
    /\ risk_score' = batch_risk_score(scored)
    /\ score_path' = "batch_analyze"
    /\ UNCHANGED scored
    /\ UNCHANGED <<detectVars, riskVars, cacheVars, handlerVars, sweeperVars, rpcVars, extVars>>

(***************************************************************************)
(* RiskScoreBuilder and RiskScore::calculate (core/risk_score.rs), and the *)
(* level RiskScoreResponse reports (api/types.rs).  The weighted sum is    *)
(* formed in f32 in the code and in hundredths here.                       *)
(***************************************************************************)
\* number of builder calls before build()
MaxFactors == 3

\* loss and tax percentages the builder is called with, times PctScale
PercentInputs == {0, 600, 1600, 3100, 5100, 10000}
SlippageInputs == {200, 400, 600, 1500, 2500}

honeypot_component(is_honeypot, sell_success, loss) ==
    IF is_honeypot THEN 95
    ELSE IF ~sell_success THEN 85
    ELSE IF loss > 50 * PctScale THEN 80
    ELSE IF loss > 30 * PctScale THEN 60
    ELSE IF loss > 15 * PctScale THEN 40
    ELSE IF loss > 5 * PctScale THEN 20
    ELSE 5

tax_component(buy_tax, sell_tax) ==
    LET total_tax == buy_tax + sell_tax
    IN  IF total_tax > 50 * PctScale THEN 90
        ELSE IF total_tax > 30 * PctScale THEN 70
        ELSE IF total_tax > 15 * PctScale THEN 50
        ELSE IF total_tax > 5 * PctScale THEN 25
        ELSE 5

slippage_component(slippage_bps) ==
    IF slippage_bps > 2000 THEN 90
    ELSE IF slippage_bps > 1000 THEN 70
    ELSE IF slippage_bps > 500 THEN 50
    ELSE IF slippage_bps > 300 THEN 30
    ELSE 10

contract_component(is_verified) == IF is_verified THEN 10 ELSE 60

\* f.name.contains("simulation") || f.name.contains("REVM")
is_simulation_factor(name) == name = "REVM Honeypot simulation"

calculate_confidence(factors_) ==
    IF Len(factors_) = 0 THEN 30
    ELSE LET base_confidence == Min(Len(factors_) * 15, 60)
             has_simulation ==
                 \E i \in 1..Len(factors_) : is_simulation_factor(factors_[i].name)
             simulation_bonus == IF has_simulation THEN 25 ELSE 0
         IN  Min(base_confidence + simulation_bonus, 95)

\* sum of score * weight, rounded half away from zero, capped at 100
weighted_total(c) ==
    LET hundredths == 35 * c.honeypot + 25 * c.tax + 15 * c.liquidity
                      + 10 * c.contract + 15 * c.mev_exposure
    IN  Min((hundredths + 50) \div 100, 100)

\* RiskScore::calculate followed by RiskScoreResponse::from
calculate(components_, factors_) ==
    LET total == weighted_total(components_)
    IN  [ done |-> TRUE,
          total |-> total,
          confidence |-> calculate_confidence(factors_),
          level |-> score_level(total) ]

NotBuilt == [done |-> FALSE, total |-> 0, confidence |-> 0, level |-> "SAFE"]

RiskInit ==
    /\ components = [honeypot |-> 0, tax |-> 0, liquidity |-> 0,
                     contract |-> 0, mev_exposure |-> 0]
    /\ factors = <<>>
    /\ built = NotBuilt

with_honeypot_result ==
    /\ ~built.done /\ Len(factors) < MaxFactors
    /\ \E is_honeypot \in BOOLEAN, sell_success \in BOOLEAN,
          loss \in PercentInputs :
         LET score == honeypot_component(is_honeypot, sell_success, loss)
         IN  /\ components' = [components EXCEPT !.honeypot = score]
             /\ factors' = Append(factors,
                    [name |-> "REVM Honeypot simulation", score |-> score])
    /\ UNCHANGED built
    /\ UNCHANGED <<detectVars, scoreVars, cacheVars, handlerVars, sweeperVars, rpcVars, extVars>>

with_tax_analysis ==
    /\ ~built.done /\ Len(factors) < MaxFactors
    /\ \E buy_tax \in PercentInputs, sell_tax \in PercentInputs :
         LET score == tax_component(buy_tax, sell_tax)
         IN  /\ components' = [components EXCEPT !.tax = score]
             /\ factors' = Append(factors,
                    [name |-> "Tax analysis", score |-> score])
    /\ UNCHANGED built
    /\ UNCHANGED <<detectVars, scoreVars, cacheVars, handlerVars, sweeperVars, rpcVars, extVars>>

with_slippage ==
    /\ ~built.done /\ Len(factors) < MaxFactors
    /\ \E slippage_bps \in SlippageInputs :
         LET score == slippage_component(slippage_bps)
         IN  /\ components' = [components EXCEPT !.mev_exposure = score]
             /\ factors' = Append(factors,
                    [name |-> "Slippage/MEV exposure", score |-> score])
    /\ UNCHANGED built
    /\ UNCHANGED <<detectVars, scoreVars, cacheVars, handlerVars, sweeperVars, rpcVars, extVars>>

with_contract_verified ==
    /\ ~built.done /\ Len(factors) < MaxFactors
    /\ \E is_verified \in BOOLEAN :
         LET score == contract_component(is_verified)
         IN  /\ components' = [components EXCEPT !.contract = score]
             /\ factors' = Append(factors,
                    [name |-> "Contract verification", score |-> score])
    /\ UNCHANGED built
    /\ UNCHANGED <<detectVars, scoreVars, cacheVars, handlerVars, sweeperVars, rpcVars, extVars>>

build ==
    /\ ~built.done
    /\ built' = calculate(components, factors)
    /\ UNCHANGED <<components, factors>>
    /\ UNCHANGED <<detectVars, scoreVars, cacheVars, handlerVars, sweeperVars, rpcVars, extVars>>

(***************************************************************************)
(* HoneypotCache (utils/cache.rs).  Strings are sequences of characters.   *)
(* Instant::now() is the variable now, in seconds; it advances by          *)
(* ClockStep.  The cache is shared by concurrent tasks.  A DashMap call is *)
(* one atomic step; get() releases its read guard before it removes an     *)
(* expired entry, so other operations may run between its two calls.       *)
(***************************************************************************)
DEFAULT_TTL_SECS == 300
\* seconds the clock advances in one step
ClockStep == 100
\* steps of the clock in one run
MaxTicks == 4
\* get calls in one run (bounds the hit and miss counters)
MaxGets == 3
\* tasks calling get concurrently
MaxTasks == 2

Tasks == 1..MaxTasks

\* token_address strings of requests: one address in three spellings, and
\* another address
TokenAddresses == { <<"0", "x", "a", "b">>, <<"0", "x", "A", "B">>,
                    <<"0", "X", "a", "B">>, <<"0", "x", "c", "d">> }

\* chain_id of the requests, as format!("{}", chain_id) prints it
ChainIds == { "1" }

\* strings the cache is called with: chain id, colon, address in any
\* spelling
Addresses == { <<c, ":">> \o a : c \in ChainIds, a \in TokenAddresses }

\* char::to_lowercase on the characters used
LowerChar(c) ==
    CASE c = "A" -> "a" [] c = "B" -> "b" [] c = "C" -> "c"
      [] c = "D" -> "d" [] c = "X" -> "x" [] OTHER -> c

\* lower case for the hex digits only, the prefix left as written
to_lowercase_hex_digits_only(str) ==
    [i \in 1..Len(str) |-> IF str[i] = "X" THEN "X" ELSE LowerChar(str[i])]

\* str::to_lowercase
to_lowercase(str) == [i \in 1..Len(str) |-> LowerChar(str[i])]

normalize_address(address) == to_lowercase(address)

Keys == { normalize_address(a) : a \in Addresses }

\* results callers store
CachedResults ==
    { safe(100, 100, 0, <<>>),
      honeypot("Sell returned 0", TRUE, FALSE, TRUE, AC_PENALTY, <<>>) }

NoEntry == [present |-> FALSE, result |-> no_liquidity_result(0),
            created_at |-> 0, ttl_secs |-> 0]

\* an entry taken to live twice its TTL
is_expired_after_twice_ttl(entry, now_) ==
    now_ - entry.created_at > 2 * entry.ttl_secs

\* CacheEntry::is_expired: created_at.elapsed() > Duration::from_secs(ttl_secs)
is_expired(entry, now_) == now_ - entry.created_at > entry.ttl_secs

\* DashMap::insert
insert(store_, key, entry) == [store_ EXCEPT ![key] = entry]

CacheInit ==
    /\ store = [k \in Keys |-> NoEntry]
    /\ now = 0
    /\ hits = 0 /\ misses = 0
    /\ get_pc = [t \in Tasks |-> [pc |-> "idle", key |-> <<>>]]
    /\ lastOp = [op |-> "new", key |-> <<>>, found |-> FALSE,
                 result |-> no_liquidity_result(0), removed |-> 0]
    /\ lastPut = [k \in Keys |-> NoEntry]

\* gets that have looked up an expired entry and not yet removed it
PendingGets == Cardinality({t \in Tasks : get_pc[t].pc = "remove"})

\* HoneypotCache::get, up to the release of the read guard: a hit and a
\* miss on an absent key return here
CacheGet(t) ==
    /\ get_pc[t].pc = "idle"
    /\ hits + misses + PendingGets < MaxGets
    /\ \E address \in Addresses :
         LET key == normalize_address(address)
             entry == store[key]
         IN  IF entry.present /\ is_expired(entry, now)
             THEN /\ get_pc' = [get_pc EXCEPT ![t] =
                                    [pc |-> "remove", key |-> key]]
                  /\ UNCHANGED <<hits, misses, lastOp>>
             ELSE IF entry.present
             THEN /\ hits' = hits + 1
                  /\ lastOp' = [op |-> "get", key |-> key, found |-> TRUE,
                                result |-> entry.result, removed |-> 0]
                  /\ UNCHANGED <<misses, get_pc>>
             ELSE /\ misses' = misses + 1
                  /\ lastOp' = [op |-> "get", key |-> key, found |-> FALSE,
                                result |-> no_liquidity_result(0),
                                removed |-> 0]
                  /\ UNCHANGED <<hits, get_pc>>
    /\ UNCHANGED <<store, now, lastPut>>
    /\ UNCHANGED <<detectVars, scoreVars, riskVars, handlerVars, sweeperVars, rpcVars, extVars>>

\* HoneypotCache::get after an expired entry was found: store.remove(&key),
\* whatever is stored under the key by now, and the miss is counted
CacheGetRemoveExpired(t) ==
    /\ get_pc[t].pc = "remove"
    /\ LET key == get_pc[t].key
       IN  /\ store' = [store EXCEPT ![key] = NoEntry]
           /\ lastOp' = [op |-> "get_expired", key |-> key, found |-> FALSE,
                         result |-> no_liquidity_result(0),
                         removed |-> IF store[key].present THEN 1 ELSE 0]
    /\ misses' = misses + 1
    /\ get_pc' = [get_pc EXCEPT ![t] = [pc |-> "idle", key |-> <<>>]]
    /\ UNCHANGED <<now, hits, lastPut>>
    /\ UNCHANGED <<detectVars, scoreVars, riskVars, handlerVars, sweeperVars, rpcVars, extVars>>

\* HoneypotCache::set
CacheSet ==
    /\ \E address \in Addresses, result \in CachedResults :
         LET key == normalize_address(address)
             entry == [present |-> TRUE, result |-> result,
                       created_at |-> now, ttl_secs |-> DEFAULT_TTL_SECS]
         IN  /\ store' = insert(store, key, entry)
             /\ lastOp' = [op |-> "set", key |-> key, found |-> FALSE,
                           result |-> result, removed |-> 0]
             /\ lastPut' = [lastPut EXCEPT ![key] = entry]
    /\ UNCHANGED <<now, hits, misses, get_pc>>
    /\ UNCHANGED <<detectVars, scoreVars, riskVars, handlerVars, sweeperVars, rpcVars, extVars>>

\* HoneypotCache::invalidate
CacheInvalidate ==
    /\ \E address \in Addresses :
         LET key == normalize_address(address)
         IN  /\ store' = [store EXCEPT ![key] = NoEntry]
             /\ lastOp' = [op |-> "invalidate", key |-> key, found |-> FALSE,
                           result |-> no_liquidity_result(0),
                           removed |-> IF store[key].present THEN 1 ELSE 0]
             /\ lastPut' = [lastPut EXCEPT ![key] = NoEntry]
    /\ UNCHANGED <<now, hits, misses, get_pc>>
    /\ UNCHANGED <<detectVars, scoreVars, riskVars, handlerVars, sweeperVars, rpcVars, extVars>>

\* HoneypotCache::cleanup_expired
CacheCleanupExpired ==
    /\ LET expired == { k \in Keys : store[k].present /\ is_expired(store[k], now) }
       IN  /\ store' = [k \in Keys |-> IF k \in expired THEN NoEntry ELSE store[k]]
           /\ lastOp' = [op |-> "cleanup_expired", key |-> <<>>, found |-> FALSE,
                         result |-> no_liquidity_result(0),
                         removed |-> Cardinality(expired)]
    /\ UNCHANGED <<now, hits, misses, get_pc, lastPut>>
    /\ UNCHANGED <<detectVars, scoreVars, riskVars, handlerVars, sweeperVars, rpcVars, extVars>>

\* a clear that also starts the statistics again
CacheClearResetsCounters ==
    /\ store' = [k \in Keys |-> NoEntry]
    /\ lastOp' = [op |-> "clear", key |-> <<>>, found |-> FALSE,
                  result |-> no_liquidity_result(0),
                  removed |-> Cardinality({k \in Keys : store[k].present})]
    /\ lastPut' = [k \in Keys |-> NoEntry]
    /\ hits' = 0 /\ misses' = 0
    /\ UNCHANGED <<now, get_pc>>
    /\ UNCHANGED <<detectVars, scoreVars, riskVars, handlerVars, sweeperVars, rpcVars, extVars>>

\* HoneypotCache::clear
CacheClear ==
    /\ store' = [k \in Keys |-> NoEntry]
    /\ lastOp' = [op |-> "clear", key |-> <<>>, found |-> FALSE,
                  result |-> no_liquidity_result(0),
                  removed |-> Cardinality({k \in Keys : store[k].present})]
    /\ lastPut' = [k \in Keys |-> NoEntry]
    /\ UNCHANGED <<now, hits, misses, get_pc>>
    /\ UNCHANGED <<detectVars, scoreVars, riskVars, handlerVars, sweeperVars, rpcVars, extVars>>

\* time passes
Tick ==
    /\ now < MaxTicks * ClockStep
    /\ now' = now + ClockStep
    /\ lastOp' = [op |-> "tick", key |-> <<>>, found |-> FALSE,
                  result |-> no_liquidity_result(0), removed |-> 0]
    /\ UNCHANGED <<store, hits, misses, get_pc, lastPut>>
    /\ UNCHANGED <<detectVars, scoreVars, riskVars, handlerVars, sweeperVars, rpcVars, extVars>>

(***************************************************************************)
(* The background task of AppState::new (api/handlers.rs): a tokio         *)
(* interval of 60 s and cleanup_expired() after every tick.  The task runs *)
(* on the multi-threaded runtime beside the request handlers, so a set may *)
(* fall between the steps of cleanup_expired: len(), retain(), len().      *)
(***************************************************************************)
SWEEP_INTERVAL_SECS == 60

\* DashMap::len
len(map) == Cardinality({k \in Keys : map[k].present})

\* swept: the entries the last retain removed
NotSpawned ==
    [pc |-> "not_spawned", before |-> 0, next_tick |-> 0, swept |-> 0]

SweeperIdle == sweeper = NotSpawned

\* tokio::spawn: the first tick of an interval completes at once
SweeperInit ==
    sweeper = [pc |-> "waiting", before |-> 0, next_tick |-> 0, swept |-> 0]

\* interval.tick().await returns; cleanup_expired: let before = store.len()
SweeperTick ==
    /\ sweeper.pc = "waiting"
    /\ now >= sweeper.next_tick
    /\ sweeper' = [pc |-> "retain", before |-> len(store),
                   next_tick |-> sweeper.next_tick + SWEEP_INTERVAL_SECS,
                   swept |-> 0]
    /\ UNCHANGED cacheVars
    /\ UNCHANGED <<detectVars, scoreVars, riskVars, handlerVars, rpcVars, extVars>>

\* cleanup_expired: store.retain(|_, entry| !entry.is_expired())
SweeperRetain ==
    /\ sweeper.pc = "retain"
    /\ LET expired == { k \in Keys :
                          store[k].present /\ is_expired(store[k], now) }
       IN  /\ store' = [k \in Keys |->
                           IF k \in expired THEN NoEntry ELSE store[k]]
           /\ lastOp' = [op |-> "retain", key |-> <<>>, found |-> FALSE,
                         result |-> no_liquidity_result(0),
                         removed |-> Cardinality(expired)]
           /\ sweeper' = [sweeper EXCEPT !.pc = "len_after",
                                         !.swept = Cardinality(expired)]
    /\ UNCHANGED <<now, hits, misses, get_pc, lastPut>>
    /\ UNCHANGED <<detectVars, scoreVars, riskVars, handlerVars, rpcVars, extVars>>

\* cleanup_expired: let removed = before - store.len(), on usize.  When
\* more keys were inserted than removed since `before` was read, the
\* subtraction overflows: a build with overflow checks panics and the task
\* ends, a build without them wraps (a negative `removed` here stands for
\* the usize 2^64 higher) and the loop goes on.
SweeperCount ==
    /\ sweeper.pc = "len_after"
    /\ LET removed == sweeper.before - len(store)
       IN  /\ lastOp' = [op |-> "cleanup_expired", key |-> <<>>,
                         found |-> FALSE, result |-> no_liquidity_result(0),
                         removed |-> removed]
           /\ \/ sweeper' = [sweeper EXCEPT !.pc = "waiting"]
              \/ /\ removed < 0
                 /\ sweeper' = [sweeper EXCEPT !.pc = "panicked"]
    /\ UNCHANGED <<store, now, hits, misses, get_pc, lastPut>>
    /\ UNCHANGED <<detectVars, scoreVars, riskVars, handlerVars, rpcVars, extVars>>

(***************************************************************************)
(* check_honeypot (api/handlers.rs): cache lookup, detect_async on a miss, *)
(* cache set, response.  Requests are served one after another here.       *)
(***************************************************************************)
\* requests served in one run
MaxRequests == 2

Requests == { [chain_id |-> c, token_address |-> a] :
                  c \in ChainIds, a \in TokenAddresses }

\* req.test_amount_eth of the requests, in units
HandlerTestAmount ==
    CHOOSE a \in TestAmounts :
        a # 0 /\ \A b \in TestAmounts : b # 0 => a <= b

NoRequest == [chain_id |-> "", token_address |-> <<>>]

\* format!("{}:{}", chain_id, req.token_address.to_lowercase())
cache_key(chain_id, token_address) ==
    <<chain_id, ":">> \o to_lowercase(token_address)

HandlerIdle == request = NoRequest /\ rpc_failed = FALSE /\ served = 0

HandlerInit ==
    /\ mode = "quote" /\ pc = "cache_get"
    /\ test_amount_eth = HandlerTestAmount
    /\ token_code \in { [some |-> FALSE, code |-> {}],
                        [some |-> TRUE, code |-> {"974d396d"}] }
    /\ access_control_penalty = 0 /\ risk_factors = <<>>
    /\ tokens_received = 0 /\ eth_received = 0 /\ txlog = <<>>
    /\ sell_outcome = None /\ ret = NoResult
    /\ request \in Requests /\ rpc_failed = FALSE /\ served = 0

\* state.cache.get(&cache_key): a hit is answered from the cache, a miss
\* goes on to the detection
CheckHoneypotCacheGet ==
    /\ pc = "cache_get"
    /\ LET key == normalize_address(
                      cache_key(request.chain_id, request.token_address))
           entry == store[key]
       IN  IF entry.present /\ ~is_expired(entry, now)
           THEN /\ hits' = hits + 1
                /\ lastOp' = [op |-> "get", key |-> key, found |-> TRUE,
                              result |-> entry.result, removed |-> 0]
                /\ ret' = Ok(entry.result)
                /\ pc' = "responded"
                /\ UNCHANGED <<store, misses>>
           ELSE /\ misses' = misses + 1
                /\ store' = [store EXCEPT ![key] = NoEntry]
                /\ lastOp' = [op |-> IF entry.present THEN "get_expired"
                                     ELSE "get",
                              key |-> key, found |-> FALSE,
                              result |-> no_liquidity_result(0),
                              removed |-> IF entry.present THEN 1 ELSE 0]
                /\ pc' = "start"
                /\ UNCHANGED <<hits, ret>>
    /\ UNCHANGED <<mode, test_amount_eth, token_code, access_control_penalty,
                   risk_factors, tokens_received, eth_received, txlog,
                   sell_outcome>>
    /\ UNCHANGED <<now, get_pc, lastPut>>
    /\ UNCHANGED <<scoreVars, riskVars, handlerVars, sweeperVars, rpcVars, extVars>>

\* match result: Ok(hp_result) is stored and answered, Err(e) is answered
\* with status 500 and not stored
CheckHoneypotCacheSet ==
    /\ pc = "done"
    /\ IF ret.ok
       THEN LET key == normalize_address(
                           cache_key(request.chain_id, request.token_address))
                entry == [present |-> TRUE, result |-> ret.value,
                          created_at |-> now, ttl_secs |-> DEFAULT_TTL_SECS]
            IN  /\ store' = insert(store, key, entry)
                /\ lastOp' = [op |-> "set", key |-> key, found |-> FALSE,
                              result |-> ret.value, removed |-> 0]
                /\ lastPut' = [lastPut EXCEPT ![key] = entry]
       ELSE UNCHANGED <<store, lastOp, lastPut>>
    /\ pc' = "responded"
    /\ UNCHANGED <<mode, test_amount_eth, token_code, access_control_penalty,
                   risk_factors, tokens_received, eth_received, txlog,
                   sell_outcome, ret>>
    /\ UNCHANGED <<now, hits, misses, get_pc>>
    /\ UNCHANGED <<scoreVars, riskVars, handlerVars, sweeperVars, rpcVars, extVars>>

\* the next request arrives
CheckHoneypotNextRequest ==
    /\ pc = "responded" /\ served + 1 < MaxRequests
    /\ served' = served + 1
    /\ request' \in Requests
    /\ rpc_failed' = FALSE
    /\ pc' = "cache_get"
    /\ access_control_penalty' = 0 /\ risk_factors' = <<>>
    /\ tokens_received' = 0 /\ eth_received' = 0 /\ txlog' = <<>>
    /\ sell_outcome' = None /\ ret' = NoResult
    /\ UNCHANGED <<mode, test_amount_eth, token_code>>
    /\ UNCHANGED <<scoreVars, riskVars, cacheVars, sweeperVars, rpcVars, extVars>>

(***************************************************************************)
(* RpcProvider (providers/rpc.rs): call tries the primary endpoint and     *)
(* then the fallback, each through call_with_retry; execute_batch posts a  *)
(* batch to the primary endpoint with the same backoff.  Delays are in     *)
(* milliseconds.                                                           *)
(***************************************************************************)
ALCHEMY_BASE_RETRY_MS == 1000
ALCHEMY_MAX_RETRY_MS == 64000
ALCHEMY_MAX_RETRIES == 7
RETRY_JITTER_PERCENT == 20

\* values of the jitter tried on each side of zero
JitterSteps == 2

Endpoints == {"primary", "fallback"}

\* JSON-RPC methods of the payload
Payloads == {"eth_call", "eth_getCode"}

\* HTTP status codes an endpoint answers with when it does not answer 200
ErrorStatuses == {400, 429, 500, 503}

\* JSON-RPC error objects: invalid params, method not found, rate limit
RpcErrors ==
    { [code |-> -32602, message |-> "Invalid params"],
      [code |-> -32601, message |-> "Method not found"],
      [code |-> -32005, message |-> "Rate limit exceeded"] }

\* result strings of a successful answer
RpcResults == {"0x", "0x01"}

\* what one POST to an endpoint can come back with
EndpointResponses ==
    { [kind |-> "transport", status |-> 0, code |-> 0, message |-> "",
       result |-> ""] }
    \cup { [kind |-> "http", status |-> st, code |-> 0, message |-> "",
            result |-> ""] : st \in ErrorStatuses }
    \cup { [kind |-> "unparseable", status |-> 200, code |-> 0,
            message |-> "", result |-> ""] }
    \cup { [kind |-> "error", status |-> 200, code |-> e.code,
            message |-> e.message, result |-> ""] : e \in RpcErrors }
    \cup { [kind |-> "empty", status |-> 200, code |-> 0, message |-> "",
            result |-> ""] }
    \cup { [kind |-> "result", status |-> 200, code |-> 0, message |-> "",
            result |-> r] : r \in RpcResults }

\* an eyre error: its text and the numbers formatted into it
Report(text, status, code, message) ==
    [text |-> text, status |-> status, code |-> code, message |-> message]

NoReport == [some |-> FALSE, value |-> Report("", 0, 0, "")]

SomeReport(e) == [some |-> TRUE, value |-> e]

\* RpcProvider::execute_call
execute_call(resp) ==
    IF resp.kind = "transport"
    THEN Err(Report("Request failed", 0, 0, ""))
    ELSE IF resp.status = 429
    THEN Err(Report("Rate limited (HTTP 429)", 429, 0, ""))
    ELSE IF ~(resp.status >= 200 /\ resp.status < 300)
    THEN Err(Report("HTTP error", resp.status, 0, ""))
    ELSE IF resp.kind = "unparseable"
    THEN Err(Report("Failed to parse response", 0, 0, ""))
    ELSE IF resp.kind = "error"
    THEN Err(Report("RPC error", 0, resp.code, resp.message))
    ELSE IF resp.kind = "result"
    THEN Ok(resp.result)
    ELSE Err(Report("No result in response", 0, 0, ""))

\* call_with_retry: ALCHEMY_BASE_RETRY_MS * 2_u64.pow(attempt - 1)
base_delay(attempt_) == ALCHEMY_BASE_RETRY_MS * 2 ^ (attempt_ - 1)

capped_delay(attempt_) == Min(base_delay(attempt_), ALCHEMY_MAX_RETRY_MS)

\* a jitter range of the whole delay
jitter_range_whole_delay(attempt_) == capped_delay(attempt_)

jitter_range(attempt_) ==
    (capped_delay(attempt_) * RETRY_JITTER_PERCENT) \div 100

\* gen_range(-jitter_range..=jitter_range): both ends, zero and the values
\* between them at JitterSteps steps a side
Jitters(attempt_) ==
    { (i * jitter_range(attempt_)) \div JitterSteps :
          i \in (0 - JitterSteps)..JitterSteps }

final_delay(attempt_, jitter) == Max(capped_delay(attempt_) + jitter, 100)

NoPosts == [e \in Endpoints |-> [count |-> 0, failed |-> 0, payload |-> None]]

posted(posts_, url_, payload_, failed_) ==
    [posts_ EXCEPT ![url_] = [count |-> @.count + 1,
                              failed |-> @.failed + (IF failed_ THEN 1 ELSE 0),
                              payload |-> payload_]]

NoAnswer == [some |-> FALSE, url |-> None, result |-> ""]

Pending == Err(Report("pending", 0, 0, ""))

RpcIdle ==
    /\ rpc_mode = None /\ rpc_pc = "idle" /\ fallback_url = [some |-> FALSE]
    /\ payload = None /\ url = None /\ attempt = 0 /\ last_error = NoReport
    /\ slept = [some |-> FALSE, ms |-> 0] /\ posts = NoPosts
    /\ observed = NoReport /\ answered = NoAnswer /\ call_ret = Pending

\* RpcProvider::call up to the first call_with_retry, or execute_batch up
\* to its loop; a provider has a fallback URL or none
RpcInit ==
    /\ rpc_mode \in {"call", "batch"}
    /\ rpc_pc = "loop_head"
    /\ fallback_url \in {[some |-> FALSE], [some |-> TRUE]}
    /\ payload \in Payloads
    /\ url = "primary" /\ attempt = 0 /\ last_error = NoReport
    /\ slept = [some |-> FALSE, ms |-> 0] /\ posts = NoPosts
    /\ observed = NoReport /\ answered = NoAnswer /\ call_ret = Pending

\* call_with_retry / execute_batch: the head of the loop body, a sleep of
\* final_delay before every attempt but the first
Backoff ==
    /\ rpc_pc = "loop_head"
    /\ attempt < ALCHEMY_MAX_RETRIES
    /\ IF attempt > 0
       THEN \E jitter \in Jitters(attempt) :
                slept' = [some |-> TRUE, ms |-> final_delay(attempt, jitter)]
       ELSE slept' = [some |-> FALSE, ms |-> 0]
    /\ rpc_pc' = "execute"
    /\ UNCHANGED <<rpc_mode, fallback_url, payload, url, attempt, last_error,
                   posts, observed, answered, call_ret>>
    /\ UNCHANGED <<detectVars, scoreVars, riskVars, cacheVars, handlerVars,
                   sweeperVars, extVars>>

\* an attempt in which a rate limited answer does not count
ExecuteCallRateLimitNotCounted ==
    /\ rpc_mode = "call"
    /\ rpc_pc = "execute"
    /\ \E resp \in EndpointResponses :
         LET r == execute_call(resp)
         IN  /\ posts' = posted(posts, url, payload, ~r.ok)
             /\ IF r.ok
                THEN /\ call_ret' = r
                     /\ answered' = [some |-> TRUE, url |-> url,
                                     result |-> resp.result]
                     /\ rpc_pc' = "returned"
                     /\ UNCHANGED <<attempt, last_error, observed>>
                ELSE /\ last_error' = SomeReport(r.error)
                     /\ observed' = SomeReport(r.error)
                     /\ attempt' = IF resp.status = 429
                                   THEN attempt ELSE attempt + 1
                     /\ rpc_pc' = "loop_head"
                     /\ UNCHANGED <<answered, call_ret>>
    /\ UNCHANGED <<rpc_mode, fallback_url, payload, url, slept>>
    /\ UNCHANGED <<detectVars, scoreVars, riskVars, cacheVars, handlerVars,
                   sweeperVars, extVars>>

\* call_with_retry: execute_call and the match on its result
ExecuteCall ==
    /\ rpc_mode = "call"
    /\ rpc_pc = "execute"
    /\ \E resp \in EndpointResponses :
         LET r == execute_call(resp)
         IN  /\ posts' = posted(posts, url, payload, ~r.ok)
             /\ IF r.ok
                THEN /\ call_ret' = r
                     /\ answered' = [some |-> TRUE, url |-> url,
                                     result |-> resp.result]
                     /\ rpc_pc' = "returned"
                     /\ UNCHANGED <<attempt, last_error, observed>>
                ELSE /\ last_error' = SomeReport(r.error)
                     /\ observed' = SomeReport(r.error)
                     /\ attempt' = attempt + 1
                     /\ rpc_pc' = "loop_head"
                     /\ UNCHANGED <<answered, call_ret>>
    /\ UNCHANGED <<rpc_mode, fallback_url, payload, url, slept>>
    /\ UNCHANGED <<detectVars, scoreVars, riskVars, cacheVars, handlerVars,
                   sweeperVars, extVars>>

\* a fallback tried as soon as one attempt on the primary has failed
CallTryFallbackAfterFirstFailure ==
    /\ rpc_mode = "call"
    /\ rpc_pc = "loop_head"
    /\ attempt >= 1
    /\ url = "primary"
    /\ fallback_url.some
    /\ url' = "fallback"
    /\ attempt' = 0
    /\ last_error' = NoReport
    /\ UNCHANGED <<rpc_mode, rpc_pc, fallback_url, payload, slept, posts,
                   observed, answered, call_ret>>
    /\ UNCHANGED <<detectVars, scoreVars, riskVars, cacheVars, handlerVars,
                   sweeperVars, extVars>>

\* call: call_with_retry on the primary URL returned Err, which is logged
\* and dropped, and there is a fallback URL: call_with_retry(fallback,
\* &payload)
CallTryFallback ==
    /\ rpc_mode = "call"
    /\ rpc_pc = "loop_head"
    /\ attempt = ALCHEMY_MAX_RETRIES
    /\ url = "primary"
    /\ fallback_url.some
    /\ url' = "fallback"
    /\ attempt' = 0
    /\ last_error' = NoReport
    /\ UNCHANGED <<rpc_mode, rpc_pc, fallback_url, payload, slept, posts,
                   observed, answered, call_ret>>
    /\ UNCHANGED <<detectVars, scoreVars, riskVars, cacheVars, handlerVars,
                   sweeperVars, extVars>>

\* call: the last call_with_retry returned Err, which is logged and
\* dropped: Err(eyre!("All RPC endpoints failed for {}", network_name))
CallAllFailed ==
    /\ rpc_mode = "call"
    /\ rpc_pc = "loop_head"
    /\ attempt = ALCHEMY_MAX_RETRIES
    /\ url = "fallback" \/ ~fallback_url.some
    /\ call_ret' = Err(Report("All RPC endpoints failed", 0, 0, ""))
    /\ rpc_pc' = "returned"
    /\ UNCHANGED <<rpc_mode, fallback_url, payload, url, attempt, last_error,
                   slept, posts, observed, answered>>
    /\ UNCHANGED <<detectVars, scoreVars, riskVars, cacheVars, handlerVars,
                   sweeperVars, extVars>>

\* execute_batch: the POST to the primary URL and the match on the
\* response; a body that does not parse ends the call through `?`
ExecuteBatch ==
    /\ rpc_mode = "batch"
    /\ rpc_pc = "execute"
    /\ \E resp \in EndpointResponses :
         LET r == execute_call(resp)
             retried == \/ resp.kind = "transport"
                        \/ ~(resp.status >= 200 /\ resp.status < 300)
         IN  /\ posts' = posted(posts, url, payload,
                                retried \/ resp.kind = "unparseable")
             /\ IF retried
                THEN /\ last_error' = SomeReport(r.error)
                     /\ observed' = SomeReport(r.error)
                     /\ attempt' = attempt + 1
                     /\ rpc_pc' = "loop_head"
                     /\ UNCHANGED <<answered, call_ret>>
                ELSE IF resp.kind = "unparseable"
                THEN /\ call_ret' =
                            Err(Report("Failed to parse batch response",
                                       0, 0, ""))
                     /\ observed' = SomeReport(
                            Report("Failed to parse batch response", 0, 0, ""))
                     /\ rpc_pc' = "returned"
                     /\ UNCHANGED <<attempt, last_error, answered>>
                ELSE /\ call_ret' = Ok(<<r>>)
                     /\ answered' = [some |-> TRUE, url |-> url,
                                     result |-> resp.result]
                     /\ rpc_pc' = "returned"
                     /\ UNCHANGED <<attempt, last_error, observed>>
    /\ UNCHANGED <<rpc_mode, fallback_url, payload, url, slept>>
    /\ UNCHANGED <<detectVars, scoreVars, riskVars, cacheVars, handlerVars,
                   sweeperVars, extVars>>

\* execute_batch: Err(last_error.unwrap_or_else(..)) after the loop
BatchFailed ==
    /\ rpc_mode = "batch"
    /\ rpc_pc = "loop_head"
    /\ attempt = ALCHEMY_MAX_RETRIES
    /\ call_ret' = IF last_error.some
                   THEN Err(last_error.value)
                   ELSE Err(Report("Batch request failed", 0, 0, ""))
    /\ rpc_pc' = "returned"
    /\ UNCHANGED <<rpc_mode, fallback_url, payload, url, attempt, last_error,
                   slept, posts, observed, answered>>
    /\ UNCHANGED <<detectVars, scoreVars, riskVars, cacheVars, handlerVars,
                   sweeperVars, extVars>>

(***************************************************************************)
(* RpcProvider::batch_call (providers/rpc.rs): the requests go out in      *)
(* chunks of MAX_BATCH_SIZE, each through execute_batch, whose retry loop  *)
(* is the one of SpecRpc; here a chunk either gets a body from the server  *)
(* or fails for good.  A request is written as its position in the input  *)
(* list, and the server's result for it is that number.                    *)
(***************************************************************************)
MAX_BATCH_SIZE == 50

\* lengths of the input list: 0..MaxSmallBatch, and MAX_BATCH_SIZE up to
\* MAX_BATCH_SIZE + MaxOverflow
MaxSmallBatch == 2
MaxOverflow == 1

RequestCounts ==
    (0..MaxSmallBatch) \cup
    { MAX_BATCH_SIZE + i : i \in 0..MaxOverflow }

\* what a server can put in the place of one item of a batch response
ItemFaults == {"error", "empty", "undecodable"}

\* orders in which a server lists the items of a batch response
ResponseOrders == {"as_sent", "reversed"}

Reverse(seq) == [i \in 1..Len(seq) |-> seq[Len(seq) + 1 - i]]

\* batch_call: requests.chunks(MAX_BATCH_SIZE), the chunk that starts at
\* position first
chunk(requests_, first) ==
    SubSeq(requests_, first,
           Min(first + MAX_BATCH_SIZE - 1, Len(requests_)))

\* the body a server answers a chunk with: item idx + 1 answers the
\* request of that id; position fault_at (0: none) holds a faulty item
response_body(chunk_, order, fault_at, fault) ==
    LET items == [j \in 1..Len(chunk_) |->
                     [id |-> j,
                      kind |-> IF j = fault_at THEN fault ELSE "result",
                      result |-> chunk_[j]]]
    IN  IF order = "reversed" THEN Reverse(items) ELSE items

\* execute_batch: one item of the parsed response
batch_item_result(item) ==
    IF item.kind = "error"
    THEN Err([text |-> "RPC error", id |-> 0])
    ELSE IF item.kind = "result"
    THEN Ok(item.result)
    ELSE Err([text |-> "No result in response for id", id |-> item.id])

\* execute_batch on a 200 answer: resp.json() of the whole body as
\* Vec<BatchResponseItem<T>>, then the items in the order of the body
execute_batch(body) ==
    IF \E i \in 1..Len(body) : body[i].kind = "undecodable"
    THEN Err([text |-> "Failed to parse batch response", id |-> 0])
    ELSE Ok([i \in 1..Len(body) |-> batch_item_result(body[i])])

NoBatchRet == Err([text |-> "pending", id |-> 0])

NoBatchLog == [faulty |-> {}, failed |-> FALSE]

BatchIdle ==
    /\ requests = <<>> /\ next_chunk = 0 /\ all_results = <<>>
    /\ batch_ret = NoBatchRet /\ batch_log = NoBatchLog

\* batch_call: the input list; an empty list is answered by the first
\* BatchCallReturn
BatchInit ==
    /\ requests \in { [i \in 1..n |-> i] : n \in RequestCounts }
    /\ next_chunk = 1 /\ all_results = <<>>
    /\ batch_ret = NoBatchRet /\ batch_log = NoBatchLog

\* batch_call: one turn of the loop over the chunks, with an answer of
\* the server to the chunk: execute_batch(..).await? and extend
BatchCallChunk ==
    /\ batch_ret = NoBatchRet
    /\ next_chunk <= Len(requests)
    /\ LET chunk_ == chunk(requests, next_chunk)
       IN  \E order \in ResponseOrders, fault \in ItemFaults,
              fault_at \in {0, 1, Len(chunk_)} :
             LET results == execute_batch(
                                response_body(chunk_, order, fault_at, fault))
             IN  /\ batch_log' =
                        [batch_log EXCEPT !.faulty =
                            IF fault_at = 0 THEN @
                            ELSE @ \cup {chunk_[fault_at]}]
                 /\ IF results.ok
                    THEN /\ all_results' = all_results \o results.value
                         /\ next_chunk' = next_chunk + Len(chunk_)
                         /\ UNCHANGED batch_ret
                    ELSE /\ batch_ret' = results
                         /\ UNCHANGED <<all_results, next_chunk>>
    /\ UNCHANGED requests
    /\ UNCHANGED notBatchVars

\* batch_call: execute_batch returned Err after its last attempt on the
\* chunk, and `?` returns it
BatchCallChunkFailed ==
    /\ batch_ret = NoBatchRet
    /\ next_chunk <= Len(requests)
    /\ batch_ret' = Err([text |-> "Request failed", id |-> 0])
    /\ batch_log' = [batch_log EXCEPT !.failed = TRUE]
    /\ UNCHANGED <<requests, next_chunk, all_results>>
    /\ UNCHANGED notBatchVars

\* batch_call: Ok(all_results) after the last chunk, Ok(vec![]) for an
\* empty input
BatchCallReturn ==
    /\ batch_ret = NoBatchRet
    /\ next_chunk > Len(requests)
    /\ batch_ret' = Ok(all_results)
    /\ UNCHANGED <<requests, next_chunk, all_results, batch_log>>
    /\ UNCHANGED notBatchVars

(***************************************************************************)
(* The API key in the texts of RpcProvider (providers/rpc.rs).  A text is  *)
(* a sequence of pieces; the piece "/v2/" is the separator that masked_url *)
(* looks for, and the piece "SECRET" stands for secret characters of the   *)
(* key.                                                                    *)
(***************************************************************************)
\* values of ALCHEMY_API_KEY that get_alchemy_key accepts: any text that
\* is not empty and not "YOUR_API_KEY"
ApiKeys ==
    { <<"SECRET">>, <<"SECRET", "-", "SECRET">>,
      <<"SECRET", "/v2/", "SECRET">> }

\* get_alchemy_subdomain
Subdomains == {"eth-mainnet", "bnb-mainnet", "base-mainnet"}

\* build_alchemy_url
build_alchemy_url(subdomain, key) ==
    <<"https://", subdomain, ".g.alchemy.com", "/v2/">> \o key

\* str::split("/v2/").collect().len()
split_len(text) == Cardinality({i \in 1..Len(text) : text[i] = "/v2/"}) + 1

\* str::split("/v2/"): the first part
split_first(text) ==
    LET at == { i \in 1..Len(text) : text[i] = "/v2/" }
        first == CHOOSE i \in at : \A j \in at : i <= j
    IN  SubSeq(text, 1, first - 1)

\* RpcProvider::masked_url
masked_url(url_) ==
    IF (\E i \in 1..Len(url_) : url_[i] = "/v2/") /\ split_len(url_) = 2
    THEN split_first(url_) \o <<"/v2/", "***HIDDEN***">>
    ELSE url_

\* Display of the reqwest::Error of a send that failed: the client
\* attaches the URL of the request to it and Display prints it when it is
\* there; the code never takes it off
SendErrorTexts(url_) ==
    { <<"error sending request">>,
      <<"error sending request for url (">> \o url_ \o <<")">> }

\* execute_call: the text of the eyre error of a failed attempt
error_text(resp, send_error) ==
    IF resp.kind = "transport"
    THEN <<"Request failed: ">> \o send_error
    ELSE <<execute_call(resp).error.text>>

KeyIdle ==
    /\ api_key = <<>> /\ primary_url = <<>>
    /\ log_lines = {} /\ error_strings = {}

\* RpcProvider::new
KeyInit ==
    /\ api_key \in ApiKeys
    /\ \E subdomain \in Subdomains :
         primary_url = build_alchemy_url(subdomain, api_key)
    /\ log_lines = {} /\ error_strings = {}

\* RpcManager::new: info!("Initialized RPC for chain {} ({})", chain_id,
\* provider.masked_url())
LogInitialized ==
    /\ log_lines' = log_lines \cup
           { <<"Initialized RPC for chain (">> \o masked_url(primary_url)
               \o <<")">> }
    /\ UNCHANGED <<api_key, primary_url, error_strings>>
    /\ UNCHANGED notKeyVars

\* call on a provider without fallback whose attempts on the primary URL
\* all fail, the last with resp: the error of call_with_retry is logged
\* by warn!("Primary RPC failed on {}: {}", network_name, e) and call
\* returns "All RPC endpoints failed for {}"
CallFailedLogged ==
    /\ \E resp \in EndpointResponses, send_error \in SendErrorTexts(primary_url) :
         /\ ~execute_call(resp).ok
         /\ LET e == error_text(resp, send_error)
            IN  /\ error_strings' = error_strings \cup
                       {e, <<"All RPC endpoints failed for network">>}
                /\ log_lines' = log_lines \cup
                       { <<"Primary RPC failed on network: ">> \o e }
    /\ UNCHANGED <<api_key, primary_url>>
    /\ UNCHANGED notKeyVars

(***************************************************************************)
(* Route discovery: DexScreenerClient and the head of check_honeypot       *)
(***************************************************************************)
\* most pairs in one DexScreener response
MaxPairs == 2

\* Option<T>: <<>> is None, <<x>> is Some(x)
Some(x) == <<x>>

\* str::contains on a string written as a sequence of pieces
contains(str, piece) == \E i \in 1..Len(str) : str[i] = piece

\* DexPair: dex_id in the spelling the API sent, labels, chain_id (lower
\* case as the API sends it), liquidity.usd in dollars
DexPairs ==
    [ dex_id : {"uniswap", "Aerodrome"},
      labels : { <<>>, << <<"v3">> >> },
      chain_id : {"ethereum", "base"},
      liquidity_usd : { <<>>, Some(1), Some(2) } ]

\* what the DexScreener API answers: a failure, or a body whose pairs come
\* in any order
DexScreenerResponses ==
    { [ok |-> FALSE, pairs |-> <<>>] } \cup
    { [ok |-> TRUE, pairs |-> s] :
        s \in UNION { [1..n -> DexPairs] : n \in 0..MaxPairs } }

\* String::to_lowercase on the dex ids used
dex_id_to_lowercase(dex_id) ==
    IF dex_id = "Aerodrome" THEN "aerodrome" ELSE dex_id

is_v2_compatible(p) ==
    LET is_v3 == \E i \in 1..Len(p.labels) :
                    contains(p.labels[i], "v3") \/ contains(p.labels[i], "v4")
        is_velodrome_style ==
            dex_id_to_lowercase(p.dex_id) \in
                {"velodrome", "aerodrome", "ramses", "thena", "equalizer"}
    IN  ~is_v3 /\ ~is_velodrome_style

\* liquidity.as_ref().and_then(|l| l.usd).unwrap_or(0.0)
liquidity_or_zero(p) ==
    IF p.liquidity_usd = <<>> THEN 0 ELSE p.liquidity_usd[1]

\* pairs.sort_by(|a, b| liq_b.partial_cmp(&liq_a)): a stable sort, highest
\* liquidity first
RECURSIVE sort_by_liquidity(_)
sort_by_liquidity(pairs) ==
    IF pairs = <<>> THEN <<>>
    ELSE LET sorted == sort_by_liquidity(SubSeq(pairs, 1, Len(pairs) - 1))
             p == pairs[Len(pairs)]
             k == Cardinality({ i \in 1..Len(sorted) :
                     liquidity_or_zero(sorted[i]) >= liquidity_or_zero(p) })
         IN  SubSeq(sorted, 1, k) \o <<p>> \o SubSeq(sorted, k + 1, Len(sorted))

get_token_pairs(resp) ==
    IF resp.ok THEN [ok |-> TRUE, pairs |-> sort_by_liquidity(resp.pairs)]
    ELSE [ok |-> FALSE, pairs |-> <<>>]

chain_id_to_dexscreener_name(chain_id) ==
    CASE chain_id = 1 -> "ethereum" [] chain_id = 56 -> "bsc"
      [] chain_id = 137 -> "polygon" [] chain_id = 42161 -> "arbitrum"
      [] chain_id = 10 -> "optimism" [] chain_id = 43114 -> "avalanche"
      [] chain_id = 8453 -> "base" [] chain_id = 900 -> "solana"
      [] OTHER -> "ethereum"

dexscreener_name_to_chain_id(name) ==
    CASE name = "ethereum" -> 1 [] name = "bsc" -> 56
      [] name = "polygon" -> 137 [] name = "arbitrum" -> 42161
      [] name = "optimism" -> 10 [] name = "avalanche" -> 43114
      [] name = "base" -> 8453 [] name = "solana" -> 900
      [] OTHER -> 1

get_pairs_for_chain(resp, chain_id) ==
    LET got == get_token_pairs(resp)
        on_chain(p) == p.chain_id = chain_id_to_dexscreener_name(chain_id)
    IN  [ok |-> got.ok, pairs |-> SelectSeq(got.pairs, on_chain)]

\* DexPair::dex_id_to_router for the dex ids and chains used
dex_id_to_router(dex_id, chain_name) ==
    IF dex_id_to_lowercase(dex_id) = "uniswap" /\ chain_name = "ethereum"
    THEN Some("0x7a250d5630B4cF539739dF2C5dAcb4c659F2488D")
    ELSE <<>>

\* DexPair::dex_id_to_name for the dex ids used
dex_id_to_name(dex_id) ==
    CASE dex_id_to_lowercase(dex_id) = "uniswap" -> "Uniswap V2"
      [] dex_id_to_lowercase(dex_id) = "aerodrome" -> "Aerodrome"
      [] OTHER -> dex_id

to_discovered_dex(p) ==
    [ dex_id |-> p.dex_id,
      dex_name |-> dex_id_to_name(p.dex_id),
      router_address |-> dex_id_to_router(p.dex_id, p.chain_id),
      liquidity_usd |-> liquidity_or_zero(p) ]

\* the pair both auto_detect_token and check_honeypot take from a sorted,
\* non-empty list: v2_pairs[0] if there is one, else pairs[0]
best_pair_first(pairs) == pairs[1]

best_pair(pairs) ==
    LET v2_pairs == SelectSeq(pairs, is_v2_compatible)
    IN  IF v2_pairs # <<>> THEN v2_pairs[1] ELSE pairs[1]

NoDexPair ==
    [dex_id |-> "", labels |-> <<>>, chain_id |-> "", liquidity_usd |-> <<>>]

\* detected_info = None
NoDetected ==
    [ ok |-> FALSE, chain_id |-> 0, best_dex |-> to_discovered_dex(NoDexPair),
      pair |-> NoDexPair, has_v2_liquidity |-> FALSE, total_pairs |-> 0 ]

\* AutoDetectedToken; pair is the DexPair its best_dex, token name, market
\* data and pair_address are copied from
auto_detect_token(resp) ==
    LET got == get_token_pairs(resp)
        v2_pairs == SelectSeq(got.pairs, is_v2_compatible)
        best == best_pair(got.pairs)
    IN  IF ~got.ok \/ got.pairs = <<>> THEN NoDetected
        ELSE [ ok |-> TRUE,
               chain_id |-> dexscreener_name_to_chain_id(best.chain_id),
               best_dex |-> to_discovered_dex(best),
               pair |-> best,
               has_v2_liquidity |-> Len(v2_pairs) > 0,
               total_pairs |-> Len(got.pairs) ]

\* check_honeypot, chain_id == 0: !has_v2_liquidity && total_pairs > 0
v3_only_several(detected) ==
    ~detected.has_v2_liquidity /\ detected.total_pairs > 1

v3_only(detected) == ~detected.has_v2_liquidity /\ detected.total_pairs > 0

\* chain_id of the requests: 0 asks for auto-detection, 999 is no chain
\* of ChainConfig
RequestChainIds == {0, 1, 8453, 999}

\* ChainConfig::all_chains
SupportedChains == {1, 56, 137, 42161, 10, 43114, 8453}

\* what check_honeypot answers once it has a detector: from the cache or
\* from detect_async, scored by calculate_risk_score, or an error
DetectorAnswers ==
    { [status |-> 200, is_honeypot |-> h, risk_score |-> s,
       reason |-> <<"detector">>] :
        h \in BOOLEAN, s \in {0, 50, 70, 95, 100} } \cup
    { [status |-> 500, is_honeypot |-> FALSE, risk_score |-> 0,
       reason |-> <<"Simulation failed">>] }

NoCheckRet ==
    [status |-> 0, is_honeypot |-> FALSE, risk_score |-> 0, reason |-> <<>>]

RouteIdle ==
    /\ req_chain_id = 0 /\ fetched = [ok |-> FALSE, pairs |-> <<>>]
    /\ route_pc = "idle" /\ detected_info = NoDetected /\ is_v3_only = FALSE
    /\ effective_chain_id = 0 /\ check_ret = NoCheckRet /\ detector_runs = 0
    /\ body_chain_id = <<>> /\ route_call = "none"

\* #[serde(default = "default_chain_id")]
default_chain_id == 1

\* check_honeypot called with an EVM address that parses; the chain_id
\* field of the JSON body may be absent
RouteInit ==
    /\ body_chain_id \in { <<>> } \cup { Some(c) : c \in RequestChainIds }
    /\ req_chain_id =
           IF body_chain_id = <<>> THEN default_chain_id ELSE body_chain_id[1]
    /\ route_call = "none"
    /\ fetched \in DexScreenerResponses
    /\ route_pc = "start" /\ detected_info = NoDetected /\ is_v3_only = FALSE
    /\ effective_chain_id = 0 /\ check_ret = NoCheckRet /\ detector_runs = 0

\* req.chain_id == 0: auto_detect_token
CheckHoneypotAutoDetect ==
    /\ route_pc = "start" /\ req_chain_id = 0
    /\ LET detected == auto_detect_token(fetched)
       IN  IF detected.ok
           THEN /\ effective_chain_id' = detected.chain_id
                /\ detected_info' = detected
                /\ is_v3_only' = v3_only(detected)
           ELSE /\ effective_chain_id' = 1
                /\ detected_info' = NoDetected
                /\ is_v3_only' = FALSE
    /\ route_pc' = "routed"
    /\ route_call' = "auto_detect_token"
    /\ UNCHANGED <<req_chain_id, fetched, check_ret, detector_runs,
                   body_chain_id>>
    /\ UNCHANGED notRouteVars

\* req.chain_id != 0: get_pairs_for_chain
CheckHoneypotPairsForChain ==
    /\ route_pc = "start" /\ req_chain_id # 0
    /\ LET got == get_pairs_for_chain(fetched, req_chain_id)
           v2_pairs == SelectSeq(got.pairs, is_v2_compatible)
           best == best_pair(got.pairs)
       IN  IF got.ok /\ got.pairs # <<>>
           THEN /\ detected_info' =
                       [ ok |-> TRUE, chain_id |-> req_chain_id,
                         best_dex |-> to_discovered_dex(best),
                         pair |-> best,
                         has_v2_liquidity |-> ~(v2_pairs = <<>>),
                         total_pairs |-> Len(got.pairs) ]
                /\ is_v3_only' = (v2_pairs = <<>>)
           ELSE /\ detected_info' = NoDetected
                /\ is_v3_only' = FALSE
    /\ effective_chain_id' = req_chain_id
    /\ route_pc' = "routed"
    /\ route_call' = "get_pairs_for_chain"
    /\ UNCHANGED <<req_chain_id, fetched, check_ret, detector_runs,
                   body_chain_id>>
    /\ UNCHANGED notRouteVars

\* if is_v3_only: the early return
CheckHoneypotV3Only ==
    /\ route_pc = "routed" /\ is_v3_only
    /\ check_ret' =
           [ status |-> 200, is_honeypot |-> FALSE, risk_score |-> 70,
             reason |-> <<"Token only available on ",
                          detected_info.best_dex.dex_name,
                          " (V3/Velodrome-style) - not supported yet. Use DEX directly.">> ]
    /\ route_pc' = "done"
    /\ UNCHANGED <<req_chain_id, fetched, detected_info, is_v3_only,
                   effective_chain_id, detector_runs, body_chain_id,
                   route_call>>
    /\ UNCHANGED notRouteVars

\* HoneypotDetector::for_chain(effective_chain_id) is None
CheckHoneypotUnsupportedChain ==
    /\ route_pc = "routed" /\ ~is_v3_only
    /\ effective_chain_id \notin SupportedChains
    /\ check_ret' =
           [ status |-> 400, is_honeypot |-> FALSE, risk_score |-> 0,
             reason |-> <<"Unsupported chain_id">> ]
    /\ route_pc' = "done"
    /\ UNCHANGED <<req_chain_id, fetched, detected_info, is_v3_only,
                   effective_chain_id, detector_runs, body_chain_id,
                   route_call>>
    /\ UNCHANGED notRouteVars

\* the rest of check_honeypot, which holds a detector: cache lookup, then
\* fetch_token_info or detect_async
CheckHoneypotWithDetector ==
    /\ route_pc = "routed" /\ ~is_v3_only
    /\ effective_chain_id \in SupportedChains
    /\ detector_runs' = detector_runs + 1
    /\ check_ret' \in DetectorAnswers
    /\ route_pc' = "done"
    /\ UNCHANGED <<req_chain_id, fetched, detected_info, is_v3_only,
                   effective_chain_id, body_chain_id, route_call>>
    /\ UNCHANGED notRouteVars

(***************************************************************************)
(* batch_analyze: one batch request and the tasks it spawns                *)
(***************************************************************************)
\* most tokens in a batch that is analysed
MaxTokens == 3

\* "Maximum 100 tokens per batch request"
MAX_BATCH_TOKENS == 100

\* token_address strings: two that parse as an Address and one that does
\* not
TokenInputs == {"0xA", "0xB", "bad"}

\* Address::from_str
address_parses(addr) == addr # "bad"

\* req.tokens: up to MaxTokens strings, or a list of one more than the
\* maximum
TokenLists ==
    UNION { [1..n -> TokenInputs] : n \in 0..MaxTokens } \cup
    { [i \in 1..(MAX_BATCH_TOKENS + 1) |-> "0xA"] }

\* req.concurrency as sent
Concurrencies == {0, 1, 2, 60}

\* usize::clamp
clamp(x, lo, hi) == IF x < lo THEN lo ELSE IF x > hi THEN hi ELSE x

\* BatchTokenResult of the task spawned for tokens[i]; detected is the
\* answer of detect_async, "none" when the address did not parse
BatchTokenResult(i, addr, detected) ==
    [ task |-> i, token_address |-> addr,
      status |-> IF detected = "Ok" THEN "success" ELSE "error",
      error |-> IF ~address_parses(addr) THEN "Invalid address format"
                ELSE IF detected = "Err" THEN "detect_async error"
                ELSE "" ]

NoAnalyzeRet ==
    [status |-> 0, total_requested |-> 0, total_processed |-> 0,
     results |-> <<>>]

AnalyzeIdle ==
    /\ req_tokens = <<>> /\ concurrency = 0 /\ analyze_pc = "idle"
    /\ permits = 0 /\ tasks = <<>> /\ awaited = 0 /\ batch_results = <<>>
    /\ analyze_ret = NoAnalyzeRet

AnalyzeInit ==
    /\ req_tokens \in TokenLists /\ concurrency \in Concurrencies
    /\ analyze_pc = "start"
    /\ permits = 0 /\ tasks = <<>> /\ awaited = 0 /\ batch_results = <<>>
    /\ analyze_ret = NoAnalyzeRet

\* req.tokens.is_empty() or req.tokens.len() > 100: 400
BatchAnalyzeReject ==
    /\ analyze_pc = "start"
    /\ req_tokens = <<>> \/ Len(req_tokens) > MAX_BATCH_TOKENS
    /\ analyze_ret' = [NoAnalyzeRet EXCEPT !.status = 400]
    /\ analyze_pc' = "done"
    /\ UNCHANGED <<req_tokens, concurrency, permits, tasks, awaited, batch_results>>
    /\ UNCHANGED notAnalyzeVars

\* Semaphore::new(concurrency) and one tokio::spawn per token
BatchAnalyzeSpawn ==
    /\ analyze_pc = "start"
    /\ req_tokens # <<>> /\ Len(req_tokens) <= MAX_BATCH_TOKENS
    /\ permits' = clamp(concurrency, 1, 50)
    /\ tasks' = [i \in 1..Len(req_tokens) |-> [pc |-> "spawned", item |-> <<>>]]
    /\ analyze_pc' = "collect"
    /\ UNCHANGED <<req_tokens, concurrency, awaited, batch_results, analyze_ret>>
    /\ UNCHANGED notAnalyzeVars

\* a task starts without waiting for a permit
TaskAcquireUnchecked ==
    /\ \E i \in 1..Len(tasks) :
         /\ tasks[i].pc = "spawned"
         /\ permits' = permits
         /\ tasks' = [tasks EXCEPT ![i].pc = "running"]
    /\ UNCHANGED <<req_tokens, concurrency, analyze_pc, awaited, batch_results,
                   analyze_ret>>
    /\ UNCHANGED notAnalyzeVars

\* let _permit = sem.acquire().await.unwrap()
TaskAcquire ==
    /\ \E i \in 1..Len(tasks) :
         /\ tasks[i].pc = "spawned"
         /\ permits > 0
         /\ permits' = permits - 1
         /\ tasks' = [tasks EXCEPT ![i].pc = "running"]
    /\ UNCHANGED <<req_tokens, concurrency, analyze_pc, awaited, batch_results,
                   analyze_ret>>
    /\ UNCHANGED notAnalyzeVars

\* the body of a task: parse, detect_async, the BatchTokenResult; _permit
\* is dropped when the body ends
TaskFinish ==
    /\ \E i \in 1..Len(tasks) :
         /\ tasks[i].pc = "running"
         /\ \E detected \in IF address_parses(req_tokens[i]) THEN {"Ok", "Err"}
                            ELSE {"none"} :
              tasks' = [tasks EXCEPT ![i] =
                          [pc |-> "finished",
                           item |-> <<BatchTokenResult(i, req_tokens[i], detected)>>]]
         /\ permits' = permits + 1
    /\ UNCHANGED <<req_tokens, concurrency, analyze_pc, awaited, batch_results,
                   analyze_ret>>
    /\ UNCHANGED notAnalyzeVars

\* a collected result is put in front of the earlier ones
BatchAnalyzeAwaitPrepending ==
    /\ analyze_pc = "collect" /\ awaited < Len(tasks)
    /\ tasks[awaited + 1].pc = "finished"
    /\ batch_results' = tasks[awaited + 1].item \o batch_results
    /\ awaited' = awaited + 1
    /\ UNCHANGED <<req_tokens, concurrency, analyze_pc, permits, tasks,
                   analyze_ret>>
    /\ UNCHANGED notAnalyzeVars

\* for handle in handles: if let Ok(result) = handle.await
BatchAnalyzeAwait ==
    /\ analyze_pc = "collect" /\ awaited < Len(tasks)
    /\ tasks[awaited + 1].pc = "finished"
    /\ batch_results' = batch_results \o tasks[awaited + 1].item
    /\ awaited' = awaited + 1
    /\ UNCHANGED <<req_tokens, concurrency, analyze_pc, permits, tasks,
                   analyze_ret>>
    /\ UNCHANGED notAnalyzeVars

\* BatchAnalysisData
BatchAnalyzeReturn ==
    /\ analyze_pc = "collect" /\ awaited = Len(tasks)
    /\ analyze_ret' =
           [ status |-> 200, total_requested |-> Len(req_tokens),
             total_processed |-> Len(batch_results), results |-> batch_results ]
    /\ analyze_pc' = "done"
    /\ UNCHANGED <<req_tokens, concurrency, permits, tasks, awaited, batch_results>>
    /\ UNCHANGED notAnalyzeVars

(***************************************************************************)
(* AnalysisResult (models/types.rs) and its add_risk                       *)
(***************************************************************************)
\* most add_risk calls on one result
MaxAdds == 3

\* RiskLevel as u8
RiskLevelRank ==
    [Safe |-> 0, Low |-> 1, Medium |-> 2, High |-> 3, Critical |-> 4]

\* RiskFactor values, with the fields add_risk looks at on both sides of
\* its thresholds; total_loss in percent
RiskFactors ==
    { [kind |-> "HighSlippage", amount |-> a] : a \in {500, 501, 1000, 1001} }
    \cup { [kind |-> "HighTax", amount |-> a] : a \in {1000, 1001, 2000, 2001} }
    \cup { [kind |-> "HighRoundTripTax", amount |-> a] : a \in {15, 16, 30, 31} }
    \cup { [kind |-> k, amount |-> 0] :
             k \in {"SandwichTarget", "Honeypot", "UnusualGasPrice",
                    "LargeValue", "UnverifiedContract", "SimulationFailed"} }

\* the match of add_risk
factor_risk(factor) ==
    CASE factor.kind = "HighSlippage" ->
             IF factor.amount > 1000 THEN "Critical"
             ELSE IF factor.amount > 500 THEN "High" ELSE "Medium"
      [] factor.kind = "HighTax" ->
             IF factor.amount > 2000 THEN "Critical"
             ELSE IF factor.amount > 1000 THEN "High" ELSE "Medium"
      [] factor.kind = "SandwichTarget" -> "Critical"
      [] factor.kind = "Honeypot" -> "Critical"
      [] factor.kind = "HighRoundTripTax" ->
             IF factor.amount > 30 THEN "Critical"
             ELSE IF factor.amount > 15 THEN "High" ELSE "Medium"
      [] factor.kind = "UnusualGasPrice" -> "Medium"
      [] factor.kind = "LargeValue" -> "Low"
      [] factor.kind = "UnverifiedContract" -> "Medium"
      [] factor.kind = "SimulationFailed" -> "High"

\* an add_risk that takes the level of the factor added last
add_risk_latest(result, factor) ==
    [ risk_level |-> factor_risk(factor),
      risk_factors |-> Append(result.risk_factors, factor) ]

add_risk(result, factor) ==
    [ risk_level |->
          IF RiskLevelRank[factor_risk(factor)] > RiskLevelRank[result.risk_level]
          THEN factor_risk(factor) ELSE result.risk_level,
      risk_factors |-> Append(result.risk_factors, factor) ]

AnalysisIdle ==
    /\ analysis = [risk_level |-> "Safe", risk_factors |-> <<>>]
    /\ added = <<>> /\ levels = <<>>

\* AnalysisResult::new
AnalysisInit ==
    /\ analysis = [risk_level |-> "Safe", risk_factors |-> <<>>]
    /\ added = <<>> /\ levels = <<"Safe">>

\* result.add_risk(factor); added are the factors of the calls so far and
\* levels the risk_level after each of them
AddRisk ==
    /\ Len(added) < MaxAdds
    /\ \E factor \in RiskFactors :
         /\ analysis' = add_risk(analysis, factor)
         /\ added' = Append(added, factor)
         /\ levels' = Append(levels, add_risk(analysis, factor).risk_level)
    /\ UNCHANGED notAnalysisVars

(***************************************************************************)
(* RateLimiter (api/middleware.rs): check, maybe_cleanup and the cleanup   *)
(* task, for one key                                                       *)
(***************************************************************************)
\* RateLimitConfig::default
REQUESTS_PER_WINDOW == 100
WINDOW_SECS == 60
CLEANUP_INTERVAL_SECS == 300

\* seconds between two readings of the clock, and the readings of a run
LimiterClockStep == 60
MaxLimiterTicks == 6

\* request handlers that call check for the key at the same time
Checkers == {"handler1", "handler2"}

NoLimiterEntry == [present |-> FALSE, count |-> 0, start |-> 0]

\* Instant::duration_since, which saturates at zero
duration_since(later, earlier) ==
    IF later > earlier THEN later - earlier ELSE 0

\* cleanup_expired_entries: retain(|_, (_, timestamp)|
\* now.duration_since(*timestamp) < window_duration * 2)
cleanup_expired_entries(entry, now_) ==
    IF entry.present /\ ~(duration_since(now_, entry.start) < 2 * WINDOW_SECS)
    THEN NoLimiterEntry ELSE entry

\* maybe_cleanup: the entry and last_cleanup it leaves
maybe_cleanup(entry, last, now_) ==
    IF duration_since(now_, last) > CLEANUP_INTERVAL_SECS
    THEN [entry |-> cleanup_expired_entries(entry, now_), last |-> now_]
    ELSE [entry |-> entry, last |-> last]

\* a check that admits while the count is not above the limit
check_entry_inclusive(entry, now_) ==
    LET inserted == IF entry.present THEN entry
                    ELSE [present |-> TRUE, count |-> 0, start |-> now_]
        expired == duration_since(now_, inserted.start) > WINDOW_SECS
        current == IF expired THEN [inserted EXCEPT !.count = 0, !.start = now_]
                   ELSE inserted
        allowed == ~(current.count > REQUESTS_PER_WINDOW)
        remaining == IF current.count > REQUESTS_PER_WINDOW THEN 0
                     ELSE REQUESTS_PER_WINDOW - current.count
    IN  [ entry |-> IF allowed THEN [current EXCEPT !.count = @ + 1]
                    ELSE current,
          opened |-> ~entry.present \/ expired,
          allowed |-> allowed,
          remaining |-> IF allowed THEN remaining - 1 ELSE 0,
          reset_secs |->
              IF WINDOW_SECS > duration_since(now_, current.start)
              THEN WINDOW_SECS - duration_since(now_, current.start) ELSE 0 ]

\* check from entry(key).or_insert((0, now)) on, under the entry's lock:
\* the entry it leaves, whether it opened a window, and what it returns
check_entry(entry, now_) ==
    LET inserted == IF entry.present THEN entry
                    ELSE [present |-> TRUE, count |-> 0, start |-> now_]
        expired == duration_since(now_, inserted.start) > WINDOW_SECS
        current == IF expired THEN [inserted EXCEPT !.count = 0, !.start = now_]
                   ELSE inserted
        allowed == ~(current.count >= REQUESTS_PER_WINDOW)
        remaining == IF current.count > REQUESTS_PER_WINDOW THEN 0
                     ELSE REQUESTS_PER_WINDOW - current.count
    IN  [ entry |-> IF allowed THEN [current EXCEPT !.count = @ + 1]
                    ELSE current,
          opened |-> ~entry.present \/ expired,
          allowed |-> allowed,
          remaining |-> IF allowed THEN remaining - 1 ELSE 0,
          reset_secs |->
              IF WINDOW_SECS > duration_since(now_, current.start)
              THEN WINDOW_SECS - duration_since(now_, current.start) ELSE 0 ]

NoLimiterRet ==
    [checked |-> FALSE, allowed |-> FALSE, remaining |-> 0, reset_secs |-> 0,
     count_before |-> 0, count_after |-> 0]

\* window: the admissions since the entry's window was opened, and
\* whether every window that ended had expired by the clock
LimiterIdle ==
    /\ limiter_entry = NoLimiterEntry /\ limiter_clock = 0
    /\ last_cleanup = 0 /\ checkers = <<>>
    /\ window = [admitted |-> 0, ended_expired |-> TRUE]
    /\ limiter_ret = NoLimiterRet

\* RateLimiter::new
LimiterInit ==
    /\ limiter_entry = NoLimiterEntry /\ limiter_clock = 0
    /\ last_cleanup = 0
    /\ checkers = [t \in Checkers |-> [pc |-> "idle", now |-> 0]]
    /\ window = [admitted |-> 0, ended_expired |-> TRUE]
    /\ limiter_ret = NoLimiterRet

\* time passes
LimiterTick ==
    /\ limiter_clock < MaxLimiterTicks * LimiterClockStep
    /\ limiter_clock' = limiter_clock + LimiterClockStep
    /\ UNCHANGED <<limiter_entry, last_cleanup, checkers, window, limiter_ret>>
    /\ UNCHANGED notLimiterVars

\* check: let now = Instant::now()
CheckReadClock ==
    /\ \E t \in Checkers :
         /\ checkers[t].pc = "idle"
         /\ checkers' = [checkers EXCEPT ![t] =
                            [pc |-> "entry", now |-> limiter_clock]]
    /\ UNCHANGED <<limiter_entry, limiter_clock, last_cleanup, window,
                   limiter_ret>>
    /\ UNCHANGED notLimiterVars

\* an expired window has ended when entry is replaced by later
WindowEnds(entry, opened) ==
    IF entry.present /\ opened
    THEN duration_since(limiter_clock, entry.start) > WINDOW_SECS
    ELSE TRUE

\* check: maybe_cleanup(now), then the entry of the key up to the return
CheckEntry ==
    /\ \E t \in Checkers :
         /\ checkers[t].pc = "entry"
         /\ LET now_ == checkers[t].now
                cleaned == maybe_cleanup(limiter_entry, last_cleanup, now_)
                checked == check_entry(cleaned.entry, now_)
                before == IF checked.opened THEN 0 ELSE cleaned.entry.count
            IN  /\ limiter_entry' = checked.entry
                /\ last_cleanup' = cleaned.last
                /\ window' =
                       [ admitted |->
                             (IF checked.opened THEN 0 ELSE window.admitted)
                               + (IF checked.allowed THEN 1 ELSE 0),
                         ended_expired |->
                             /\ window.ended_expired
                             /\ WindowEnds(limiter_entry, checked.opened) ]
                /\ limiter_ret' =
                       [ checked |-> TRUE, allowed |-> checked.allowed,
                         remaining |-> checked.remaining,
                         reset_secs |-> checked.reset_secs,
                         count_before |-> before,
                         count_after |-> checked.entry.count ]
         /\ checkers' = [checkers EXCEPT ![t] = [pc |-> "idle", now |-> 0]]
    /\ UNCHANGED limiter_clock
    /\ UNCHANGED notLimiterVars

\* start_cleanup_task: force_cleanup() at every tick of its 300 s interval
ForceCleanup ==
    /\ limiter_clock % CLEANUP_INTERVAL_SECS = 0
    /\ limiter_entry' = cleanup_expired_entries(limiter_entry, limiter_clock)
    /\ window' =
           [ window EXCEPT !.ended_expired =
                 /\ window.ended_expired
                 /\ WindowEnds(limiter_entry, ~limiter_entry'.present) ]
    /\ UNCHANGED <<limiter_clock, last_cleanup, checkers, limiter_ret>>
    /\ UNCHANGED notLimiterVars

(***************************************************************************)
(* AlchemyWsClient::run_subscription (providers/websocket.rs)              *)
(***************************************************************************)
WS_RECONNECT_BASE_MS == 1000
WS_RECONNECT_MAX_MS == 30000
WS_MAX_RECONNECT_ATTEMPTS == 10

\* most connection attempts and most forwarded events in one run
MaxConnects == 12
MaxEvents == 1

\* tx.send(event).await on the channel: it fails once the receiver is gone
send_fails(dropped) == dropped

\* ws_attempt: the latest connection attempt, the milliseconds slept
\* since the attempt before it and the rounds ended since the loop began
\* or last connected.  barren_rounds: the rounds in a row that ended
\* without a subscription request sent.
NoAttempt == [n |-> 0, waited |-> 0, after_rounds |-> 0]

WsIdle ==
    /\ ws_pc = "idle" /\ reconnect_attempts = 0 /\ reconnect_delay = 0
    /\ is_connected = FALSE /\ rx_dropped = FALSE /\ send_failed = FALSE
    /\ ws_attempt = NoAttempt /\ waited = 0 /\ rounds_since_connected = 0
    /\ barren_rounds = 0 /\ forwarded = 0 /\ gave_up = FALSE

\* let mut reconnect_attempts = 0; let mut reconnect_delay = BASE
WsInit ==
    /\ ws_pc = "connect" /\ reconnect_attempts = 0
    /\ reconnect_delay = WS_RECONNECT_BASE_MS
    /\ is_connected = FALSE /\ rx_dropped = FALSE /\ send_failed = FALSE
    /\ ws_attempt = NoAttempt /\ waited = 0 /\ rounds_since_connected = 0
    /\ barren_rounds = 0 /\ forwarded = 0 /\ gave_up = FALSE

\* the subscriber drops the receiver
ReceiverDropped ==
    /\ ws_pc # "done" /\ ~rx_dropped
    /\ rx_dropped' = TRUE
    /\ UNCHANGED <<ws_pc, reconnect_attempts, reconnect_delay, is_connected,
                   send_failed, ws_attempt, waited, rounds_since_connected,
                   barren_rounds, forwarded, gave_up>>
    /\ UNCHANGED notWsVars

\* connect_async returns Ok: counters reset, let _ = tx.send(Connected)
WsConnected ==
    /\ ws_pc = "connect" /\ ws_attempt.n < MaxConnects
    /\ ws_attempt' = [n |-> ws_attempt.n + 1, waited |-> waited,
                      after_rounds |-> rounds_since_connected]
    /\ waited' = 0 /\ rounds_since_connected' = 0
    /\ is_connected' = TRUE
    /\ reconnect_attempts' = 0
    /\ reconnect_delay' = WS_RECONNECT_BASE_MS
    /\ send_failed' = (send_failed \/ send_fails(rx_dropped))
    /\ ws_pc' = "subscribe"
    /\ UNCHANGED <<rx_dropped, barren_rounds, forwarded, gave_up>>
    /\ UNCHANGED notWsVars

\* connect_async returns Err: let _ = tx.send(Error(e))
WsConnectFailed ==
    /\ ws_pc = "connect" /\ ws_attempt.n < MaxConnects
    /\ ws_attempt' = [n |-> ws_attempt.n + 1, waited |-> waited,
                      after_rounds |-> rounds_since_connected]
    /\ waited' = 0
    /\ barren_rounds' = barren_rounds + 1
    /\ send_failed' = (send_failed \/ send_fails(rx_dropped))
    /\ ws_pc' = "round_end"
    /\ UNCHANGED <<reconnect_attempts, reconnect_delay, is_connected,
                   rx_dropped, rounds_since_connected, forwarded, gave_up>>
    /\ UNCHANGED notWsVars

\* write.send(subscribe_msg) fails: continue
WsSubscribeFailed ==
    /\ ws_pc = "subscribe"
    /\ barren_rounds' = barren_rounds + 1
    /\ rounds_since_connected' = rounds_since_connected + 1
    /\ ws_pc' = "connect"
    /\ UNCHANGED <<reconnect_attempts, reconnect_delay, is_connected,
                   rx_dropped, send_failed, ws_attempt, waited, forwarded,
                   gave_up>>
    /\ UNCHANGED notWsVars

\* write.send(subscribe_msg) succeeds
WsSubscribed ==
    /\ ws_pc = "subscribe"
    /\ barren_rounds' = 0
    /\ ws_pc' = "read"
    /\ UNCHANGED <<reconnect_attempts, reconnect_delay, is_connected,
                   rx_dropped, send_failed, ws_attempt, waited,
                   rounds_since_connected, forwarded, gave_up>>
    /\ UNCHANGED notWsVars

\* a text message the parser turns into an event: tx.send(event), and
\* return when it fails
WsForwardEvent ==
    /\ ws_pc = "read"
    /\ IF send_fails(rx_dropped)
       THEN /\ send_failed' = TRUE /\ ws_pc' = "done"
            /\ UNCHANGED forwarded
       ELSE /\ forwarded < MaxEvents
            /\ forwarded' = forwarded + 1
            /\ UNCHANGED <<send_failed, ws_pc>>
    /\ UNCHANGED <<reconnect_attempts, reconnect_delay, is_connected,
                   rx_dropped, ws_attempt, waited, rounds_since_connected,
                   barren_rounds, gave_up>>
    /\ UNCHANGED notWsVars

\* Close, an error or the end of the stream: is_connected = false,
\* let _ = tx.send(Disconnected)
WsDisconnected ==
    /\ ws_pc = "read"
    /\ is_connected' = FALSE
    /\ send_failed' = (send_failed \/ send_fails(rx_dropped))
    /\ ws_pc' = "round_end"
    /\ UNCHANGED <<reconnect_attempts, reconnect_delay, rx_dropped,
                   ws_attempt, waited, rounds_since_connected, barren_rounds,
                   forwarded, gave_up>>
    /\ UNCHANGED notWsVars

\* reconnect_attempts += 1 and the give-up test; the final Error event
WsRoundEnd ==
    /\ ws_pc = "round_end"
    /\ reconnect_attempts' = reconnect_attempts + 1
    /\ rounds_since_connected' = rounds_since_connected + 1
    /\ IF reconnect_attempts + 1 >= WS_MAX_RECONNECT_ATTEMPTS
       THEN /\ gave_up' = TRUE /\ ws_pc' = "done"
            /\ send_failed' = (send_failed \/ send_fails(rx_dropped))
       ELSE /\ ws_pc' = "sleep"
            /\ UNCHANGED <<gave_up, send_failed>>
    /\ UNCHANGED <<reconnect_delay, is_connected, rx_dropped, ws_attempt,
                   waited, barren_rounds, forwarded>>
    /\ UNCHANGED notWsVars

\* sleep(reconnect_delay); reconnect_delay = (reconnect_delay * 2).min(MAX)
WsSleep ==
    /\ ws_pc = "sleep"
    /\ waited' = waited + reconnect_delay
    /\ reconnect_delay' = Min(reconnect_delay * 2, WS_RECONNECT_MAX_MS)
    /\ ws_pc' = "connect"
    /\ UNCHANGED <<reconnect_attempts, is_connected, rx_dropped, send_failed,
                   ws_attempt, rounds_since_connected, barren_rounds,
                   forwarded, gave_up>>
    /\ UNCHANGED notWsVars

(***************************************************************************)
(* Values a part of the state holds in a specification that does not use   *)
(* it                                                                      *)
(***************************************************************************)
ScoreIdle ==
    /\ scored = no_liquidity_result(0) /\ risk_score = 0 /\ score_path = None

RiskIdle == RiskInit

CacheIdle == CacheInit

CoreIdle ==
    /\ DetectIdle /\ ScoreIdle /\ RiskIdle /\ CacheIdle /\ HandlerIdle
    /\ SweeperIdle /\ RpcIdle

ExtIdle == BatchIdle /\ KeyIdle /\ RouteIdle /\ AnalyzeIdle
    /\ AnalysisIdle
    /\ LimiterIdle
    /\ WsIdle

(***************************************************************************)
(* Specifications                                                          *)
(***************************************************************************)
\* one detection, in either mode
Init == DetectInit /\ ScoreIdle /\ RiskIdle /\ CacheIdle /\ HandlerIdle
    /\ SweeperIdle /\ RpcIdle /\ ExtIdle

Next == DetectNext

Spec == Init /\ [][Next]_vars

\* one HoneypotResult scored by check_honeypot or by batch_analyze
InitScore ==
    DetectIdle /\ ScoreInit /\ RiskIdle /\ CacheIdle /\ HandlerIdle
    /\ SweeperIdle /\ RpcIdle /\ ExtIdle

NextScore == ScoreCheckHoneypot \/ ScoreBatchAnalyze

SpecScore == InitScore /\ [][NextScore]_vars

\* one RiskScoreBuilder chain ended by build()
InitRisk ==
    DetectIdle /\ ScoreIdle /\ RiskInit /\ CacheIdle /\ HandlerIdle
    /\ SweeperIdle /\ RpcIdle /\ ExtIdle

NextRisk ==
    \/ with_honeypot_result \/ with_tax_analysis \/ with_slippage
    \/ with_contract_verified \/ build

SpecRisk == InitRisk /\ [][NextRisk]_vars

\* one HoneypotCache and its callers
InitCache ==
    DetectIdle /\ ScoreIdle /\ RiskIdle /\ CacheInit /\ HandlerIdle
    /\ SweeperIdle /\ RpcIdle /\ ExtIdle

NextCache ==
    \/ \E t \in Tasks : CacheGet(t)
    \/ \E t \in Tasks : CacheGetRemoveExpired(t)
    \/ CacheSet \/ CacheInvalidate
    \/ CacheCleanupExpired \/ CacheClear \/ Tick

SpecCache == InitCache /\ [][NextCache]_vars

\* check_honeypot requests served from one cache, while time passes
InitHandler == HandlerInit /\ ScoreIdle /\ RiskIdle /\ CacheInit
    /\ SweeperIdle /\ RpcIdle /\ ExtIdle

NextHandler ==
    \/ CheckHoneypotCacheGet
    \/ QuoteFetch \/ QuoteBuy \/ QuoteSell
    \/ CheckHoneypotCacheSet
    \/ CheckHoneypotNextRequest
    \/ Tick

SpecHandler == InitHandler /\ [][NextHandler]_vars

\* the sweeper beside handlers that set entries, while time passes; the
\* runtime keeps scheduling a task that is ready to run
InitSweeper ==
    DetectIdle /\ ScoreIdle /\ RiskIdle /\ CacheInit /\ HandlerIdle
    /\ SweeperInit /\ RpcIdle /\ ExtIdle

NextSweeper ==
    \/ SweeperTick \/ SweeperRetain \/ SweeperCount
    \/ CacheSet \/ Tick

SpecSweeper ==
    /\ InitSweeper /\ [][NextSweeper]_vars
    /\ WF_vars(SweeperTick) /\ WF_vars(SweeperRetain) /\ WF_vars(SweeperCount)

\* one RpcProvider::call or execute_batch; the HTTP client has a timeout
\* and every sleep is finite, so a call that can take a step takes it
InitRpc ==
    DetectIdle /\ ScoreIdle /\ RiskIdle /\ CacheIdle /\ HandlerIdle
    /\ SweeperIdle /\ RpcInit /\ ExtIdle

NextRpc ==
    \/ Backoff \/ ExecuteCall \/ CallTryFallback \/ CallAllFailed
    \/ ExecuteBatch \/ BatchFailed

SpecRpc == InitRpc /\ [][NextRpc]_vars /\ WF_vars(NextRpc)

\* one RpcProvider::batch_call
InitBatch ==
    CoreIdle /\ BatchInit /\ KeyIdle /\ RouteIdle /\ AnalyzeIdle
    /\ AnalysisIdle
    /\ LimiterIdle
    /\ WsIdle

NextBatch == BatchCallChunk \/ BatchCallChunkFailed \/ BatchCallReturn

SpecBatch == InitBatch /\ [][NextBatch]_vars

\* one RpcProvider, its initialization and its failed calls
InitKey ==
    CoreIdle /\ BatchIdle /\ KeyInit /\ RouteIdle /\ AnalyzeIdle
    /\ AnalysisIdle
    /\ LimiterIdle
    /\ WsIdle

NextKey == LogInitialized \/ CallFailedLogged

SpecKey == InitKey /\ [][NextKey]_vars

\* one check_honeypot request, from route discovery to its detector
InitRoute ==
    CoreIdle /\ BatchIdle /\ KeyIdle /\ RouteInit /\ AnalyzeIdle
    /\ AnalysisIdle
    /\ LimiterIdle
    /\ WsIdle

NextRoute ==
    \/ CheckHoneypotAutoDetect \/ CheckHoneypotPairsForChain
    \/ CheckHoneypotV3Only \/ CheckHoneypotUnsupportedChain
    \/ CheckHoneypotWithDetector

SpecRoute == InitRoute /\ [][NextRoute]_vars

\* one batch_analyze request
InitAnalyze ==
    CoreIdle /\ BatchIdle /\ KeyIdle /\ RouteIdle /\ AnalyzeInit
    /\ AnalysisIdle
    /\ LimiterIdle
    /\ WsIdle

NextAnalyze ==
    \/ BatchAnalyzeReject \/ BatchAnalyzeSpawn \/ TaskAcquire \/ TaskFinish
    \/ BatchAnalyzeAwait \/ BatchAnalyzeReturn

SpecAnalyze == InitAnalyze /\ [][NextAnalyze]_vars

\* one AnalysisResult and the add_risk calls on it
InitAnalysis ==
    CoreIdle /\ BatchIdle /\ KeyIdle /\ RouteIdle /\ AnalyzeIdle
    /\ AnalysisInit
    /\ LimiterIdle
    /\ WsIdle

NextAnalysis == AddRisk

SpecAnalysis == InitAnalysis /\ [][NextAnalysis]_vars

\* the rate limiter under concurrent checks of one key, while time passes
InitLimiter ==
    CoreIdle /\ BatchIdle /\ KeyIdle /\ RouteIdle /\ AnalyzeIdle /\ AnalysisIdle
    /\ LimiterInit
    /\ WsIdle

NextLimiter ==
    \/ LimiterTick \/ CheckReadClock \/ CheckEntry \/ ForceCleanup

SpecLimiter == InitLimiter /\ [][NextLimiter]_vars

\* one run_subscription task; connecting, sending and sleeping all end
InitWs ==
    CoreIdle /\ BatchIdle /\ KeyIdle /\ RouteIdle /\ AnalyzeIdle /\ AnalysisIdle /\ LimiterIdle
    /\ WsInit

NextWs ==
    \/ ReceiverDropped \/ WsConnected \/ WsConnectFailed
    \/ WsSubscribeFailed \/ WsSubscribed \/ WsForwardEvent
    \/ WsDisconnected \/ WsRoundEnd \/ WsSleep

SpecWs == InitWs /\ [][NextWs]_vars

(***************************************************************************)
(* Properties of the detector, checked under Spec                          *)
(***************************************************************************)
\* the detection has returned
Returned == pc = "done"

C2_RevertedImpliesHoneypot ==
    Returned => /\ ret.ok
                /\ (ret.value.sell_reverted => ret.value.is_honeypot)

\* quote mode has returned a result with sell_reverted, after the sell
\* quote failed
C2_Witness ==
    /\ Returned /\ mode = "quote" /\ sell_outcome = "quote_failed"
    /\ ret.ok /\ ret.value.sell_reverted

\* C3: a returned result with buy_success, sell_success and sell_reverted
\* all false has is_honeypot false, in either mode.
C3_UnknownLiquidityNotHoneypot ==
    (Returned /\ ret.ok
       /\ ~ret.value.buy_success /\ ~ret.value.sell_success
       /\ ~ret.value.sell_reverted)
        => ~ret.value.is_honeypot

\* C4: in one full simulation the transactions run in the order Buy,
\* Approve, Sell with nonces 0, 1, 2, and a step is executed only when the
\* step before it succeeded.
C4_BuyApproveSellInOrder ==
    mode = "sim" =>
        /\ Len(txlog) <= 3
        /\ \A i \in 1..Len(txlog) :
             /\ txlog[i].step = <<"Buy", "Approve", "Sell">>[i]
             /\ txlog[i].nonce = i - 1
             /\ i > 1 => txlog[i - 1].kind = "Success"

\* the three transactions have all been executed
C4_Witness ==
    /\ mode = "sim" /\ Returned /\ Len(txlog) = 3
    /\ txlog[3].step = "Sell" /\ txlog[3].kind = "Success"

\* C5: every result returned by either mode has total_loss_percent >= 0.
C5_LossNeverNegative ==
    (Returned /\ ret.ok) => ret.value.total_loss_percent >= 0

(***************************************************************************)
(* Properties of the PERS score, checked under SpecScore                   *)
(***************************************************************************)
\* C6: a result with sell_reverted scores at least 95, whatever its other
\* fields are, in check_honeypot and in batch_analyze.
C6_SellRevertedScoresAtLeast95 ==
    (score_path # None /\ scored.sell_reverted) => risk_score >= 95

\* a result with sell_reverted and neither buy nor sell succeeded has been
\* scored
C6_Witness ==
    /\ score_path # None /\ scored.sell_reverted
    /\ ~scored.buy_success /\ ~scored.sell_success
    /\ risk_score >= 95

C8_PenaltyOnlyAboveFivePercent ==
    (score_path # None /\ scored.total_loss_percent <= 5 * PctScale) =>
        LET unpenalised == [scored EXCEPT !.access_control_penalty = 0]
        IN  risk_score = IF score_path = "check_honeypot"
                         THEN calculate_risk_score(unpenalised)
                         ELSE batch_risk_score(unpenalised)

(***************************************************************************)
(* Property of RiskScore, checked under SpecRisk                           *)
(***************************************************************************)
\* C9: a RiskScore whose honeypot component is at least 95 is reported
\* with level HIGH or CRITICAL, whatever the other components are.
C9_HoneypotComponentIsHighOrCritical ==
    (built.done /\ components.honeypot >= 95)
        => built.level \in {"HIGH", "CRITICAL"}

(***************************************************************************)
(* Property of the cache, checked under SpecCache                          *)
(***************************************************************************)
\* C10: a get(k) that is issued while the latest set(k, r) is no older
\* than its TTL, with no set, invalidate or clear of k in between, returns
\* Some(r).  (lastPut[k] is the latest set of k not followed by an
\* invalidate or clear; a get that found a live or no entry is issued and
\* answered in one step.)
C10_ReadYourWrites ==
    (lastOp.op = "get" /\ lastPut[lastOp.key].present
       /\ now - lastPut[lastOp.key].created_at <= lastPut[lastOp.key].ttl_secs)
        => /\ lastOp.found
           /\ lastOp.result = lastPut[lastOp.key].result

\* C11: a get(k) issued when the entry stored under k is older than its
\* TTL, counted from the set and not refreshed by hits, returns None and
\* leaves no entry under k: a hit is only ever returned within TTL seconds
\* of the latest set, and a get that found an expired entry ends as a miss
\* with the key absent from the store.
C11_ExpiredGetReturnsNone ==
    /\ (lastOp.op = "get" /\ lastOp.found)
           => /\ lastPut[lastOp.key].present
              /\ now - lastPut[lastOp.key].created_at <= DEFAULT_TTL_SECS
    /\ lastOp.op = "get_expired"
           => /\ ~lastOp.found
              /\ ~store[lastOp.key].present

\* after a hit, a later get of an entry older than its TTL has ended as a
\* miss and removed the entry
C11_Witness ==
    /\ lastOp.op = "get_expired" /\ lastOp.removed = 1
    /\ hits >= 1 /\ misses >= 1
    /\ ~store[lastOp.key].present

(***************************************************************************)
(* Property of check_honeypot, checked under SpecHandler                   *)
(***************************************************************************)
\* C12: a detection during which an RPC call failed is not stored in the
\* cache: whenever check_honeypot has just stored a result, no eth_call of
\* that detection failed.
C12_FailedDetectionNotCached ==
    (pc = "responded" /\ lastOp.op = "set") => ~rpc_failed

\* two strings that differ at most in the case of their letters
EqualIgnoringCase(a, b) ==
    /\ Len(a) = Len(b)
    /\ \A i \in 1..Len(a) :
         \/ a[i] = b[i]
         \/ {a[i], b[i]} \in { {"a", "A"}, {"b", "B"}, {"c", "C"},
                               {"d", "D"}, {"x", "X"} }

\* C13: for the same chain_id, token address strings that are equal
\* ignoring letter case give the same cache key: once check_honeypot has
\* stored a result for one spelling, the entry a get finds under the key
\* of any other spelling is that result.
C13_CacheKeyIgnoresCase ==
    (pc = "responded" /\ lastOp.op = "set") =>
        \A other \in Requests :
            (/\ other.chain_id = request.chain_id
             /\ EqualIgnoringCase(other.token_address, request.token_address))
            => LET key == normalize_address(
                              cache_key(other.chain_id, other.token_address))
               IN  /\ store[key].present
                   /\ ~is_expired(store[key], now)
                   /\ store[key].result = ret.value

\* a result has been stored for an address written with capital letters,
\* and the same address is among the requests in two more spellings
C13_Witness ==
    /\ pc = "responded" /\ lastOp.op = "set"
    /\ request.token_address = <<"0", "X", "a", "B">>
    /\ Cardinality({ other \in Requests :
                       EqualIgnoringCase(other.token_address,
                                         request.token_address) }) = 3

\* a step in which a get returns to its caller
GetCompletes ==
    /\ lastOp'.op \in {"get", "get_expired"}
    /\ PendingGets' <= PendingGets

\* C14: the hit and miss counters never decrease under get, set,
\* invalidate, cleanup_expired and clear; a get that completes raises
\* exactly one of the two by exactly one and no other step changes them,
\* so that hits + misses is the number of completed gets.
C14_CountersCountGets ==
    [][ IF GetCompletes
        THEN \/ hits' = hits + 1 /\ misses' = misses
             \/ hits' = hits /\ misses' = misses + 1
        ELSE hits' = hits /\ misses' = misses ]_vars

\* a hit and two misses were counted, one of them on an expired entry,
\* and the cache has been cleared since
C14_Witness ==
    /\ hits = 1 /\ misses = 2
    /\ lastOp.op = "clear" /\ lastOp.removed >= 1
    /\ now > DEFAULT_TTL_SECS

\* C15: an expired entry is removed even if it is never read again: the
\* sweeper task runs for the whole life of the process, and a run leaves
\* no entry in the store that is expired at that time.
C15_SweeperRunsForLife ==
    /\ sweeper.pc # "panicked"
    /\ lastOp.op = "retain" =>
           \A k \in Keys : ~(store[k].present /\ is_expired(store[k], now))

(***************************************************************************)
(* Properties of RpcProvider, checked under SpecRpc                        *)
(***************************************************************************)
CallReturned == rpc_mode = "call" /\ rpc_pc = "returned"

\* C16: a call posts at most 7 requests to any one endpoint and always
\* returns; when it returns an error, 7 attempts have failed on the
\* primary endpoint and, if a fallback is configured, 7 on the fallback,
\* and no endpoint was tried again after its 7th failure.
C16_AtMostSevenAttemptsThenError ==
    /\ [](rpc_mode = "call" =>
            /\ \A e \in Endpoints : posts[e].count <= 7
            /\ (CallReturned /\ ~call_ret.ok) =>
                   /\ posts["primary"].failed = 7
                   /\ posts["fallback"].failed =
                          (IF fallback_url.some THEN 7 ELSE 0))
    /\ <>(rpc_pc = "returned")

\* a call with a fallback has returned an error after 14 failed attempts
C16_Witness ==
    /\ CallReturned /\ ~call_ret.ok
    /\ fallback_url.some
    /\ posts["primary"].count = 7 /\ posts["fallback"].count = 7

\* errors after which a retry is allowed: HTTP 429, HTTP 5xx, a transport
\* error, a rate-limit response
RetryableReport(e) ==
    \/ e.text = "Request failed"
    \/ e.status = 429
    \/ e.status >= 500 /\ e.status < 600
    \/ e.code = -32005

\* errors that end the call: invalid params, method not found, a response
\* that does not parse
NonRetryableReport(e) ==
    \/ e.code \in {-32602, -32601}
    \/ e.text = "Failed to parse response"

\* C17: an attempt of call that fails with a non-retryable error ends the
\* call at once with that error; the call goes on after a failed attempt
\* only when the error was HTTP 429, HTTP 5xx, a transport error or a
\* rate-limit response.
C17_NonRetryableEndsCall ==
    (rpc_mode = "call" /\ observed.some) =>
        /\ NonRetryableReport(observed.value) =>
               (CallReturned /\ call_ret = Err(observed.value))
        /\ rpc_pc # "returned" => RetryableReport(observed.value)

\* C18: call contacts the fallback endpoint only after all 7 attempts
\* on the primary endpoint have failed; the fallback receives the payload
\* the primary received, and an answer of the fallback is returned as Ok
\* of its result, the same value an answer of the primary gives.
C18_FallbackAfterPrimaryExhausted ==
    rpc_mode = "call" =>
        /\ (url = "fallback" \/ posts["fallback"].count > 0) =>
               /\ fallback_url.some
               /\ posts["primary"].count = ALCHEMY_MAX_RETRIES
               /\ posts["primary"].failed = ALCHEMY_MAX_RETRIES
        /\ posts["fallback"].count > 0 =>
               /\ posts["fallback"].payload = payload
               /\ posts["primary"].payload = payload
        /\ (CallReturned /\ answered.some) => call_ret = Ok(answered.result)

\* the fallback has answered its second attempt and call has returned
C18_Witness ==
    /\ CallReturned /\ call_ret.ok
    /\ answered.some /\ answered.url = "fallback"
    /\ posts["fallback"].count = 2 /\ posts["fallback"].failed = 1

\* C19: when the primary endpoint and the fallback, if any, have failed,
\* the error call returns is the error of the last failed attempt, not
\* only a generic message.
C19_ErrorCarriesLastError ==
    (CallReturned /\ ~call_ret.ok) =>
        /\ observed.some
        /\ call_ret.error = observed.value

\* C20: the sleep before attempt k, 2 <= k <= 7, of call_with_retry and
\* of execute_batch lies between 0.8 and 1.2 times
\* min(1000 * 2^(k-2), 64000) ms and is at least 100 ms; nothing is slept
\* before the first attempt.
C20_BackoffWithinJitterBand ==
    rpc_pc = "execute" =>
        IF attempt = 0
        THEN ~slept.some
        ELSE LET k == attempt + 1
                 nominal == Min(1000 * 2 ^ (k - 2), 64000)
             IN  /\ k >= 2 /\ k <= 7
                 /\ slept.some
                 /\ 10 * slept.ms >= 8 * nominal
                 /\ 10 * slept.ms <= 12 * nominal
                 /\ slept.ms >= 100

\* the 7th attempt of a batch is about to be posted after the longest
\* sleep, 1.2 times 32000 ms
C20_Witness ==
    /\ rpc_mode = "batch" /\ rpc_pc = "execute"
    /\ attempt = 6
    /\ slept.some /\ slept.ms = 38400

(***************************************************************************)
(* Properties of RpcProvider::batch_call, checked under SpecBatch          *)
(***************************************************************************)
BatchReturned == batch_ret # NoBatchRet

\* C21: batch_call returns exactly one result per input request, at the
\* position of that request in the input list, for lists of any length
\* (lists longer than 50 go out in chunks) and whatever order the server
\* lists the items of a response in.
C21_OneResultPerRequestInOrder ==
    (BatchReturned /\ batch_ret.ok) =>
        /\ Len(batch_ret.value) = Len(requests)
        /\ \A i \in 1..Len(requests) :
             i \notin batch_log.faulty =>
                 batch_ret.value[i] = Ok(requests[i])

\* C22: an error of a single item of a batch (a JSON-RPC error object, a
\* missing or an undecodable result) is an Err at the position of that
\* item only: batch_call returns Ok and every other position holds an Ok.
C22_ItemErrorStaysAtItsItem ==
    (BatchReturned /\ ~batch_log.failed) =>
        /\ batch_ret.ok
        /\ Len(batch_ret.value) = Len(requests)
        /\ \A i \in 1..Len(requests) :
             batch_ret.value[i].ok <=> i \notin batch_log.faulty

(***************************************************************************)
(* Properties of the texts of RpcProvider, checked under SpecKey           *)
(***************************************************************************)
ShowsKey(text) == \E i \in 1..Len(text) : text[i] = "SECRET"

\* C23: no log line and no error string of the RPC client shows the API
\* key, on success or on any failure path: the URL of the managed endpoint
\* is shown in its masked form only.
C23_ApiKeyNeverShown ==
    \A text \in log_lines \cup error_strings : ~ShowsKey(text)

(***************************************************************************)
(* Properties of the bytecode scan, checked under Spec                     *)
(***************************************************************************)
\* the eleven selectors of the scanner's table
ListedSelectors ==
    { "974d396d", "3d18678e", "e4997dc5", "44337ea1", "b515566a",
      "0ecb93c0", "09218e91", "363bf964", "8a8c523c", "ec28438a",
      "f1d5f517" }

Scanned == pc \notin {None, "start"} /\ token_code.some

\* C24: for every bytecode that contains at least one of the eleven
\* dangerous selectors the scan gives penalty exactly 50, however many
\* selectors and storage patterns match.
C24_ListedSelectorGivesFifty ==
    (Scanned /\ token_code.code \cap ListedSelectors # {}) =>
        access_control_penalty = 50

\* a bytecode with two of the selectors and a storage pattern was scanned
C24_Witness ==
    /\ Scanned
    /\ Cardinality(token_code.code \cap ListedSelectors) = 2
    /\ token_code.code \cap StoragePatterns # {}
    /\ access_control_penalty = 50
    /\ Len(risk_factors) >= 2

\* C25: for a bytecode with none of the eleven selectors and neither the
\* "bots" nor the "blacklist" pattern the scan gives penalty 0 and no
\* finding; the penalty is always 0 or 50.
C25_NothingListedGivesZero ==
    /\ access_control_penalty \in {0, 50}
    /\ (/\ Scanned /\ pc \in {"buy", "quote_buy"}
        /\ token_code.code \cap (ListedSelectors \cup StoragePatterns) = {})
       => (access_control_penalty = 0 /\ risk_factors = <<>>)

(***************************************************************************)
(* Properties of the quote mode and its score, checked under Spec          *)
(***************************************************************************)
QuoteReturned == Returned /\ mode = "quote" /\ ret.ok

\* C26: in quote mode, when the forward quote (of a test amount other
\* than 0) gives a token amount other than 0 and the reverse quote gives
\* 0, the result is a honeypot whose reason begins "Sell returned 0" and
\* whose score is exactly 95.
C26_ReverseQuoteZeroScores95 ==
    (/\ QuoteReturned /\ Len(txlog) = 2
     /\ test_amount_eth # 0
     /\ txlog[1].kind = "Ok" /\ txlog[1].value # 0
     /\ txlog[2].kind = "Ok" /\ txlog[2].value = 0)
    => /\ ret.value.is_honeypot
       /\ ret.value.reason = "Sell returned 0"
       /\ calculate_risk_score(ret.value) = 95

\* C27: in quote mode, when the forward quote gives 0 the detection ends
\* without a sell quote; the result is no honeypot, its reason begins
\* "No liquidity pool found" and its score is exactly 70.
C27_ForwardQuoteZeroScores70 ==
    (/\ Returned /\ mode = "quote" /\ Len(txlog) >= 1
     /\ txlog[1].kind = "Ok" /\ txlog[1].value = 0)
    => /\ Len(txlog) = 1
       /\ ret.ok
       /\ ~ret.value.is_honeypot
       /\ ret.value.reason = "No liquidity pool found"
       /\ calculate_risk_score(ret.value) = 70

\* the forward quote gave 0 for a token whose bytecode has a dangerous
\* selector
C27_Witness ==
    /\ QuoteReturned /\ Len(txlog) = 1
    /\ txlog[1].kind = "Ok" /\ txlog[1].value = 0
    /\ ret.value.access_control_penalty = 50
    /\ calculate_risk_score(ret.value) = 70

(***************************************************************************)
(* Properties of the full simulation, checked under Spec                   *)
(***************************************************************************)
SellSucceeded ==
    /\ Returned /\ mode = "sim" /\ ret.ok
    /\ Len(txlog) = 3 /\ txlog[3].kind = "Success"

\* C28: in full-simulation mode with a successful sell the result is a
\* honeypot exactly when total_loss_percent > 50 (a test amount of 0 has
\* no loss to compute and gives a honeypot whose total_loss_percent is
\* 100); otherwise it is the safe result with buy_tax_percent =
\* sell_tax_percent = total_loss_percent / 2.
C28_HoneypotIffLossAboveFifty ==
    SellSucceeded =>
        /\ ret.value.is_honeypot <=>
               ret.value.total_loss_percent > 50 * PctScale
        /\ test_amount_eth # 0 =>
               LET total == loss_percent(test_amount_eth, eth_received)
               IN  /\ ret.value.is_honeypot <=> total > 50 * PctScale
                   /\ ~ret.value.is_honeypot =>
                          /\ ret.value.buy_tax_percent = total \div 2
                          /\ ret.value.sell_tax_percent = total \div 2
        /\ ~ret.value.is_honeypot =>
               /\ ret.value.reason = "Token passed buy/sell simulation"
               /\ ret.value.buy_success /\ ret.value.sell_success
               /\ ~ret.value.sell_reverted
               /\ ret.value.buy_tax_percent = ret.value.sell_tax_percent

\* a sell that returned exactly half of the test amount: a loss of 50 %,
\* a safe result with 25 % of tax on each side
C28_Witness ==
    /\ SellSucceeded
    /\ test_amount_eth # 0
    /\ loss_percent(test_amount_eth, eth_received) = 50 * PctScale
    /\ ~ret.value.is_honeypot
    /\ ret.value.buy_tax_percent = 25 * PctScale


(***************************************************************************)
(* Properties of route discovery, checked under SpecRoute                  *)
(***************************************************************************)
\* auto_detect_token has answered Ok for the request
AutoDetected == route_pc # "start" /\ req_chain_id = 0 /\ detected_info.ok

\* the fetched pairs that are V2-compatible
V2Fetched ==
    { i \in 1..Len(fetched.pairs) : is_v2_compatible(fetched.pairs[i]) }

\* pair p has the greatest liquidity_usd among the fetched pairs at the
\* positions in S
GreatestAmong(p, S) ==
    /\ \E i \in S : fetched.pairs[i] = p
    /\ \A i \in S : to_discovered_dex(fetched.pairs[i]).liquidity_usd
                       <= to_discovered_dex(p).liquidity_usd

\* C29: when auto_detect_token answers, the pair it chose is a
\* V2-compatible pair of greatest liquidity_usd and has_v2_liquidity is
\* true if any fetched pair is V2-compatible; otherwise it is a pair of
\* greatest liquidity_usd overall and has_v2_liquidity is false; chain_id
\* and best_dex are those of the chosen pair
C29_PrefersV2ThenLiquidity ==
    AutoDetected =>
        /\ detected_info.chain_id =
               dexscreener_name_to_chain_id(detected_info.pair.chain_id)
        /\ detected_info.best_dex = to_discovered_dex(detected_info.pair)
        /\ IF V2Fetched # {}
           THEN /\ detected_info.has_v2_liquidity
                /\ GreatestAmong(detected_info.pair, V2Fetched)
           ELSE /\ ~detected_info.has_v2_liquidity
                /\ GreatestAmong(detected_info.pair, 1..Len(fetched.pairs))

\* a non-V2 pair with more liquidity than every V2 pair was fetched and a
\* V2 pair was chosen
C29_Witness ==
    /\ AutoDetected
    /\ V2Fetched # {}
    /\ \E i \in 1..Len(fetched.pairs) :
         /\ i \notin V2Fetched
         /\ liquidity_or_zero(fetched.pairs[i])
               > detected_info.best_dex.liquidity_usd
    /\ is_v2_compatible(detected_info.pair)

\* the pairs route discovery reports for the request: all of them when
\* the chain is auto-detected, those of the requested chain otherwise
RoutePairs ==
    IF req_chain_id = 0 THEN get_token_pairs(fetched).pairs
    ELSE get_pairs_for_chain(fetched, req_chain_id).pairs

\* route discovery reports at least one pair and none V2-compatible
OnlyIncompatiblePairs ==
    /\ RoutePairs # <<>>
    /\ \A i \in 1..Len(RoutePairs) : ~is_v2_compatible(RoutePairs[i])

\* C30: a request whose route discovery reports pairs but no V2-compatible
\* one never gets a detector, and its answer has risk_score 70 and
\* is_honeypot false
C30_V3OnlyShortCircuits ==
    OnlyIncompatiblePairs =>
        /\ detector_runs = 0
        /\ route_pc = "done" =>
               /\ check_ret.status = 200
               /\ check_ret.risk_score = 70
               /\ ~check_ret.is_honeypot

C30_Witness ==
    /\ OnlyIncompatiblePairs /\ route_pc = "done"
    /\ check_ret.risk_score = 70 /\ detector_runs = 0

\* C31: a request whose chain_id is not a supported chain, nor 0, nor the
\* Solana sentinel 900, is answered with HTTP 400 and never gets a
\* detector
C31_UnsupportedChainRejected ==
    (req_chain_id \notin SupportedChains \cup {0, 900}) =>
        /\ detector_runs = 0
        /\ route_pc = "done" => check_ret.status = 400

\* C32: a request whose body has no chain_id, or chain_id 0, is routed by
\* auto_detect_token, and when auto_detect_token fails the request goes
\* on with chain_id 1
C32_UnspecifiedChainAutoDetects ==
    (body_chain_id \in { <<>>, Some(0) } /\ route_pc # "start") =>
        /\ route_call = "auto_detect_token"
        /\ ~auto_detect_token(fetched).ok => effective_chain_id = 1

(***************************************************************************)
(* Properties of batch_analyze, checked under SpecAnalyze                  *)
(***************************************************************************)
\* the tasks that hold a permit and have not finished
InProgress == { i \in 1..Len(tasks) : tasks[i].pc = "running" }

\* the permits the semaphore of the request was made with
PermitsOfRequest ==
    IF concurrency < 1 THEN 1 ELSE IF concurrency > 50 THEN 50 ELSE concurrency

\* C33: while a batch is served, the analyses in progress are at most
\* N = clamp(concurrency, 1, 50), and each of them holds one of the N
\* permits from its start to its end: the permits left and the analyses in
\* progress add up to N
C33_AtMostNInProgress ==
    analyze_pc \in {"collect", "done"} /\ analyze_ret.status # 400 =>
        /\ Cardinality(InProgress) <= PermitsOfRequest
        /\ permits + Cardinality(InProgress) = PermitsOfRequest
        /\ permits >= 0

\* all permits taken while another task waits for one
C33_Witness ==
    /\ analyze_pc = "collect" /\ permits = 0
    /\ Cardinality(InProgress) = 2
    /\ \E i \in 1..Len(tasks) : tasks[i].pc = "spawned"

\* the request has been answered with its data
BatchAnalyzed == analyze_pc = "done" /\ analyze_ret.status = 200

C34_LazyEvictionSparesFresh ==
    (lastOp.op = "get_expired" /\ lastOp.removed = 1) =>
        /\ lastPut[lastOp.key].present
        /\ is_expired(lastPut[lastOp.key], now)

\* C35: the sweep never fails; the retain of cleanup_expired leaves every
\* entry that is not expired in the store, and the count cleanup_expired
\* returns is the number of entries its retain removed, whatever other
\* tasks set in the meantime.  Checked under SpecSweeper.
C35_SweepCountsWhatItRemoved ==
    /\ sweeper.pc # "panicked"
    /\ lastOp.op = "retain" =>
           \A k \in Keys :
               (lastPut[k].present /\ ~is_expired(lastPut[k], now))
                   => store[k] = lastPut[k]
    /\ lastOp.op = "cleanup_expired" => lastOp.removed = sweeper.swept

(***************************************************************************)
(* Properties of AnalysisResult, checked under SpecAnalysis                *)
(***************************************************************************)
\* the highest rank among the levels of the factors in seq, 0 for none
RECURSIVE HighestRank(_)
HighestRank(seq) ==
    IF seq = <<>> THEN 0
    ELSE LET rest == HighestRank(Tail(seq))
             first == RiskLevelRank[factor_risk(Head(seq))]
         IN  IF first > rest THEN first ELSE rest

\* C37: after any sequence of add_risk calls, risk_level is the highest
\* level among the factors added so far, Safe when none was added; it
\* never went down from one call to the next; and risk_factors holds the
\* added factors in call order
C37_RiskLevelIsHighestAdded ==
    /\ RiskLevelRank[analysis.risk_level] = HighestRank(added)
    /\ analysis.risk_factors = added
    /\ \A i \in 1..(Len(levels) - 1) :
         RiskLevelRank[levels[i]] <= RiskLevelRank[levels[i + 1]]

\* a Critical factor followed by a Low one: the level stays Critical
C37_Witness ==
    /\ Len(added) = 3
    /\ factor_risk(added[2]) = "Critical"
    /\ factor_risk(added[3]) = "Low"
    /\ analysis.risk_level = "Critical"

(***************************************************************************)
(* Properties of the rate limiter, checked under SpecLimiter               *)
(***************************************************************************)
\* C38: for a key, at most 100 checks are admitted in one window, also
\* with checks of the key running at the same time; a window ends, and
\* the count starts again, only when more than 60 s have passed since its
\* start; a check is denied only when 100 were admitted in the window and
\* leaves the count as it was
C38_AtMostHundredPerWindow ==
    /\ window.admitted <= REQUESTS_PER_WINDOW
    /\ window.ended_expired
    /\ (limiter_ret.checked /\ ~limiter_ret.allowed) =>
           /\ limiter_ret.count_after = limiter_ret.count_before
           /\ limiter_ret.count_before = REQUESTS_PER_WINDOW

\* a check denied in a full window that is not over, while the other
\* handler is in the middle of its check
C38_Witness ==
    /\ limiter_ret.checked /\ ~limiter_ret.allowed
    /\ window.admitted = REQUESTS_PER_WINDOW
    /\ limiter_entry.count = REQUESTS_PER_WINDOW
    /\ \E t \in Checkers : checkers[t].pc = "entry"
    /\ limiter_clock - limiter_entry.start = WINDOW_SECS

(***************************************************************************)
(* Properties of the WebSocket subscription loop, checked under SpecWs     *)
(***************************************************************************)
\* the delay before the attempt that follows k rounds ended in a row
\* since the loop began or last connected
BackoffAfter(k) ==
    Min(WS_RECONNECT_BASE_MS * 2 ^ (k - 1), WS_RECONNECT_MAX_MS)

\* C39: every connection attempt after the first comes after a sleep of
\* 1000 ms to 30000 ms: 1000 ms after a round that had connected, doubled
\* after each further failure in a row, capped at 30000 ms
C39_BackoffBeforeEveryReconnect ==
    ws_attempt.n > 1 =>
        /\ ws_attempt.waited >= WS_RECONNECT_BASE_MS
        /\ ws_attempt.waited <= WS_RECONNECT_MAX_MS
        /\ ws_attempt.waited = BackoffAfter(ws_attempt.after_rounds)

\* C40: the loop has ended, with the final Error event sent, once 10
\* rounds in a row ended without a subscription; and it goes on no
\* further once a send has found the receiver dropped
C40_GivesUpOrStopsOnDrop ==
    /\ barren_rounds >= WS_MAX_RECONNECT_ATTEMPTS =>
           (ws_pc \in {"round_end", "done"} /\ (ws_pc = "done" => gave_up))
    /\ send_failed => ws_pc = "done"

====
